---- MODULE Spec2Model ----
(***************************************************************************)
(* Creditra backend: the in-memory credit-line registry                    *)
(* (src/src/services/creditService.ts) and the HTTP handlers that call it  *)
(* (src/src/routes/credit.ts, src/src/middleware/adminAuth.ts).            *)
(*                                                                         *)
(* Spec      the service functions called directly, in any order.          *)
(* SpecHttp  a batch of suspend/close HTTP requests in flight at once,     *)
(*           handled one at a time in any order by the event loop.         *)
(* Further specifications, each introduced where it is defined, cover the  *)
(* read routes, the admin key check, the Horizon listener                  *)
(* (src/docs/data-model.md), the migration runner (src/unnamed/part_002)   *)
(* and schema validation (src/src/db/validate-schema.ts), the risk levels  *)
(* and POST /evaluate, and the migrate and validate CLIs (src/src/db).     *)
(***************************************************************************)
EXTENDS Integers, Sequences, FiniteSets, Bags, TLC

VARIABLES
    store,      \* _store: Map<string, CreditLine>, as its entries in insertion order
    clock,      \* the wall clock read by now()
    last,       \* the most recent direct service call and what it returned or threw
    adminKey,   \* process.env["ADMIN_API_KEY"]
    reqs,       \* the HTTP requests of the batch, with their responses
    running,        \* horizon listener: whether the listener loop is running
    intervalHandle, \* horizon listener: handle of the polling timer, or Null
    eventHandlers,  \* horizon listener: the registered handlers, in order
    activeConfig,   \* horizon listener: the configuration set on start, or Null
    timers,         \* the interval timers active in the event loop
    calls,          \* the start() and pollOnce() calls suspended at an await, as a bag
    dir,        \* the entries of the migrations directory
    db,         \* the database: schema_migrations, public tables, SQL it ran
    runs,       \* the runPendingMigrations calls made, with their progress
    cli         \* the migrate or validate CLI process: where main() is, its client, its exit code

\* The horizon listener's module state and the event loop's part in it.
lvars == <<running, intervalHandle, eventHandlers, activeConfig, timers, calls>>

\* The database and the migrations directory.
dvars == <<dir, db, runs, cli>>

vars == <<store, clock, last, adminKey, reqs, lvars, dvars>>

----------------------------------------------------------------------------
(* Bounds *)

MaxClock == 2
MaxReqs == 3
MaxHandlers == 2
MaxCalls == 2
MaxTimers == 2
MaxRuns == 2
MaxScore == 120
MaxEvaluations == 2
MaxInputs == 2

Ids == {"a", "b"}

----------------------------------------------------------------------------
(* Types: creditService.ts 2-35 *)

CreditLineStatus == {"active", "suspended", "closed"}

\* The value of a status argument that the caller left out.
Omitted == "omitted"

\* JavaScript's undefined, as Map.get returns it for a missing key.
Undefined == [undefined |-> TRUE]

\* An environment variable that is not set, a header that was not sent.
NoValue == "<undefined>"

CreditLineEvent(action, ts) == [action |-> action, timestamp |-> ts]

NoError == [name |-> "none"]

InvalidTransitionError(currentStatus, requestedAction) ==
    [name |-> "InvalidTransitionError",
     currentStatus |-> currentStatus,
     requestedAction |-> requestedAction]

CreditLineNotFoundError(id) ==
    [name |-> "CreditLineNotFoundError", id |-> id]

----------------------------------------------------------------------------
(* Map<string, CreditLine>: a sequence of entries in insertion order.  set  *)
(* on a key already present keeps the entry's place and replaces its value. *)

MapIndex(m, k) == {i \in DOMAIN m : m[i].key = k}

MapHas(m, k) == MapIndex(m, k) # {}

MapGet(m, k) ==
    IF MapHas(m, k) THEN m[CHOOSE i \in MapIndex(m, k) : TRUE].value
    ELSE Undefined

\* set as delete-then-insert: a key already present moves to the end.
MapSetMovesToEnd(m, k, v) ==
    Append(SelectSeq(m, LAMBDA e : e.key # k), [key |-> k, value |-> v])

MapSet(m, k, v) ==
    IF MapHas(m, k)
    THEN [i \in DOMAIN m |-> IF m[i].key = k THEN [key |-> k, value |-> v] ELSE m[i]]
    ELSE Append(m, [key |-> k, value |-> v])

MapValues(m) == [i \in DOMAIN m |-> m[i].value]

MapKeys(m) == {m[i].key : i \in DOMAIN m}

----------------------------------------------------------------------------
(* The service functions.  Each takes the registry s and the clock reading *)
(* ts it gets from now(), and yields the registry after the call together  *)
(* with the value returned (ret) or the error thrown (err).                *)

Returned(s, v) == [store |-> s, outcome |-> "ok", ret |-> v, err |-> NoError]

Thrown(s, e) == [store |-> s, outcome |-> "throw", ret |-> Undefined, err |-> e]

\* Variants of createCreditLine with a slip in it.

\* the default of the status parameter left out
createCreditLineNoDefault(s, id, statusArg, ts) ==
    LET line == [id |-> id,
                 status |-> statusArg,
                 createdAt |-> ts,
                 updatedAt |-> ts,
                 events |-> <<CreditLineEvent("created", ts)>>]
    IN Returned(MapSet(s, id, line), line)

\* an id already stored is refused
createCreditLineRejectsDuplicate(s, id, statusArg, ts) ==
    LET status == IF statusArg = Omitted THEN "active" ELSE statusArg
        line == [id |-> id,
                 status |-> status,
                 createdAt |-> ts,
                 updatedAt |-> ts,
                 events |-> <<CreditLineEvent("created", ts)>>]
    IN IF MapHas(s, id)
       THEN Thrown(s, [name |-> "Error", id |-> id])
       ELSE Returned(MapSet(s, id, line), line)

createCreditLine(s, id, statusArg, ts) ==
    LET status == IF statusArg = Omitted THEN "active" ELSE statusArg
        line == [id |-> id,
                 status |-> status,
                 createdAt |-> ts,
                 updatedAt |-> ts,
                 events |-> <<CreditLineEvent("created", ts)>>]
    IN Returned(MapSet(s, id, line), line)

\* getCreditLine as get-or-create: a missing id is stored as a new line.
getCreditLineOrCreate(s, id) ==
    IF MapHas(s, id) THEN Returned(s, MapGet(s, id))
    ELSE LET line == [id |-> id, status |-> "active", createdAt |-> 0,
                      updatedAt |-> 0,
                      events |-> <<CreditLineEvent("created", 0)>>]
         IN Returned(MapSet(s, id, line), line)

getCreditLine(s, id) == Returned(s, MapGet(s, id))

listCreditLines(s) == Returned(s, MapValues(s))

\* Variants of suspendCreditLine with a slip in it.

\* suspend as a toggle: a suspended line goes back to active.
suspendCreditLineToggles(s, id, ts) ==
    LET line == MapGet(s, id) IN
    IF line = Undefined THEN Thrown(s, CreditLineNotFoundError(id))
    ELSE IF line.status = "closed"
    THEN Thrown(s, InvalidTransitionError(line.status, "suspend"))
    ELSE LET to == IF line.status = "active" THEN "suspended" ELSE "active"
             upd == [line EXCEPT !.status = to,
                                 !.updatedAt = ts,
                                 !.events = Append(@, CreditLineEvent("suspended", ts))]
         IN Returned(MapSet(s, id, upd), upd)

\* the status check dropped
suspendCreditLineNoGuard(s, id, ts) ==
    LET line == MapGet(s, id) IN
    IF line = Undefined THEN Thrown(s, CreditLineNotFoundError(id))
    ELSE LET upd == [line EXCEPT !.status = "suspended",
                                 !.updatedAt = ts,
                                 !.events = Append(@, CreditLineEvent("suspended", ts))]
         IN Returned(MapSet(s, id, upd), upd)

\* the status check written as: status === "suspended"
suspendCreditLineOnlyRejectsSuspended(s, id, ts) ==
    LET line == MapGet(s, id) IN
    IF line = Undefined THEN Thrown(s, CreditLineNotFoundError(id))
    ELSE IF line.status = "suspended"
    THEN Thrown(s, InvalidTransitionError(line.status, "suspend"))
    ELSE LET upd == [line EXCEPT !.status = "suspended",
                                 !.updatedAt = ts,
                                 !.events = Append(@, CreditLineEvent("suspended", ts))]
         IN Returned(MapSet(s, id, upd), upd)

\* updatedAt written before the status check
suspendCreditLineTouchesFirst(s, id, ts) ==
    LET line == MapGet(s, id) IN
    IF line = Undefined THEN Thrown(s, CreditLineNotFoundError(id))
    ELSE IF line.status # "active"
    THEN Thrown(MapSet(s, id, [line EXCEPT !.updatedAt = ts]),
                InvalidTransitionError(line.status, "suspend"))
    ELSE LET upd == [line EXCEPT !.status = "suspended",
                                 !.updatedAt = ts,
                                 !.events = Append(@, CreditLineEvent("suspended", ts))]
         IN Returned(MapSet(s, id, upd), upd)

\* the events.push left out
suspendCreditLineNoEvent(s, id, ts) ==
    LET line == MapGet(s, id) IN
    IF line = Undefined THEN Thrown(s, CreditLineNotFoundError(id))
    ELSE IF line.status # "active"
    THEN Thrown(s, InvalidTransitionError(line.status, "suspend"))
    ELSE LET upd == [line EXCEPT !.status = "suspended", !.updatedAt = ts]
         IN Returned(MapSet(s, id, upd), upd)

suspendCreditLine(s, id, ts) ==
    LET line == MapGet(s, id) IN
    IF line = Undefined THEN Thrown(s, CreditLineNotFoundError(id))
    ELSE IF line.status # "active"
    THEN Thrown(s, InvalidTransitionError(line.status, "suspend"))
    ELSE LET upd == [line EXCEPT !.status = "suspended",
                                 !.updatedAt = ts,
                                 !.events = Append(@, CreditLineEvent("suspended", ts))]
         IN Returned(MapSet(s, id, upd), upd)

\* Variants of closeCreditLine with a slip in it.

\* the status check copied from suspendCreditLine: status !== "active"
closeCreditLineRejectsSuspended(s, id, ts) ==
    LET line == MapGet(s, id) IN
    IF line = Undefined THEN Thrown(s, CreditLineNotFoundError(id))
    ELSE IF line.status # "active"
    THEN Thrown(s, InvalidTransitionError(line.status, "close"))
    ELSE LET upd == [line EXCEPT !.status = "closed",
                                 !.updatedAt = ts,
                                 !.events = Append(@, CreditLineEvent("closed", ts))]
         IN Returned(MapSet(s, id, upd), upd)

\* the status check dropped
closeCreditLineNoGuard(s, id, ts) ==
    LET line == MapGet(s, id) IN
    IF line = Undefined THEN Thrown(s, CreditLineNotFoundError(id))
    ELSE LET upd == [line EXCEPT !.status = "closed",
                                 !.updatedAt = ts,
                                 !.events = Append(@, CreditLineEvent("closed", ts))]
         IN Returned(MapSet(s, id, upd), upd)

\* a missing id stored as a closed line instead of reported
closeCreditLineUpserts(s, id, ts) ==
    LET line == MapGet(s, id) IN
    IF line = Undefined
    THEN LET new == [id |-> id, status |-> "closed", createdAt |-> ts,
                     updatedAt |-> ts,
                     events |-> <<CreditLineEvent("closed", ts)>>]
         IN Returned(MapSet(s, id, new), new)
    ELSE IF line.status = "closed"
    THEN Thrown(s, InvalidTransitionError(line.status, "close"))
    ELSE LET upd == [line EXCEPT !.status = "closed",
                                 !.updatedAt = ts,
                                 !.events = Append(@, CreditLineEvent("closed", ts))]
         IN Returned(MapSet(s, id, upd), upd)

\* updatedAt refreshed on every line of the registry, not only the closed one
closeCreditLineTouchesAll(s, id, ts) ==
    LET line == MapGet(s, id) IN
    IF line = Undefined THEN Thrown(s, CreditLineNotFoundError(id))
    ELSE IF line.status = "closed"
    THEN Thrown(s, InvalidTransitionError(line.status, "close"))
    ELSE LET upd == [line EXCEPT !.status = "closed",
                                 !.updatedAt = ts,
                                 !.events = Append(@, CreditLineEvent("closed", ts))]
             all == [i \in DOMAIN s |->
                        [s[i] EXCEPT !.value = [@ EXCEPT !.updatedAt = ts]]]
         IN Returned(MapSet(all, id, upd), upd)

\* the event put in front of the log (unshift) instead of at its end (push)
closeCreditLineUnshifts(s, id, ts) ==
    LET line == MapGet(s, id) IN
    IF line = Undefined THEN Thrown(s, CreditLineNotFoundError(id))
    ELSE IF line.status = "closed"
    THEN Thrown(s, InvalidTransitionError(line.status, "close"))
    ELSE LET upd == [line EXCEPT !.status = "closed",
                                 !.updatedAt = ts,
                                 !.events = <<CreditLineEvent("closed", ts)>> \o @]
         IN Returned(MapSet(s, id, upd), upd)

\* the updatedAt assignment left out
closeCreditLineKeepsUpdatedAt(s, id, ts) ==
    LET line == MapGet(s, id) IN
    IF line = Undefined THEN Thrown(s, CreditLineNotFoundError(id))
    ELSE IF line.status = "closed"
    THEN Thrown(s, InvalidTransitionError(line.status, "close"))
    ELSE LET upd == [line EXCEPT !.status = "closed",
                                 !.events = Append(@, CreditLineEvent("closed", ts))]
         IN Returned(MapSet(s, id, upd), upd)

closeCreditLine(s, id, ts) ==
    LET line == MapGet(s, id) IN
    IF line = Undefined THEN Thrown(s, CreditLineNotFoundError(id))
    ELSE IF line.status = "closed"
    THEN Thrown(s, InvalidTransitionError(line.status, "close"))
    ELSE LET upd == [line EXCEPT !.status = "closed",
                                 !.updatedAt = ts,
                                 !.events = Append(@, CreditLineEvent("closed", ts))]
         IN Returned(MapSet(s, id, upd), upd)

----------------------------------------------------------------------------
(* The HTTP layer: adminAuth.ts 5-29, routes/credit.ts 14-65.  A request  *)
(* record holds what was sent (kind, id, key: the x-admin-api-key header)  *)
(* and the response (status, 0 while none was sent, and body).             *)

Kinds == <<"suspend", "close">>

IdSeq == <<"a", "b">>

Keys == <<"secret", NoValue, "wrong">>

EnvKeys == {"secret", NoValue}

NoBody == [none |-> TRUE]

Request(kind, id, key) ==
    [kind |-> kind, id |-> id, key |-> key, status |-> 0, body |-> NoBody]

Response(status, body) == [status |-> status, body |-> body]

\* !v for a string or undefined
Falsy(v) == v = NoValue \/ v = ""

\* The error's message, kept as its parts.
Message(err) ==
    IF err.name = "CreditLineNotFoundError" THEN <<"not found", err.id>>
    ELSE IF err.name = "InvalidTransitionError"
    THEN <<"Cannot", err.requestedAction, err.currentStatus>>
    ELSE <<"Internal server error">>

\* the return after the 401 response left out
adminAuthCallsNoReturn(expectedKey, providedKey) ==
    IF Falsy(expectedKey)
    THEN [sent |-> <<Response(503, [error |-> <<"Admin authentication is not configured">>])>>,
          next |-> 0]
    ELSE IF Falsy(providedKey) \/ providedKey # expectedKey
    THEN [sent |-> <<Response(401, [error |-> <<"Unauthorized">>])>>, next |-> 1]
    ELSE [sent |-> <<>>, next |-> 1]

\* The calls adminAuth makes: the responses it sends on res, in order, and
\* the number of times it calls next().
adminAuthCalls(expectedKey, providedKey) ==
    IF Falsy(expectedKey)
    THEN [sent |-> <<Response(503, [error |-> <<"Admin authentication is not configured">>])>>,
          next |-> 0]
    ELSE IF Falsy(providedKey) \/ providedKey # expectedKey
    THEN [sent |-> <<Response(401, [error |-> <<"Unauthorized">>])>>, next |-> 0]
    ELSE [sent |-> <<>>, next |-> 1]

\* "next" (status 0) when the request may proceed, else the response sent.
adminAuth(expectedKey, providedKey) ==
    LET c == adminAuthCalls(expectedKey, providedKey) IN
    IF c.sent # <<>> THEN c.sent[1] ELSE Response(0, NoBody)

\* an invalid transition reported as a bad request
handleServiceErrorBadRequest(err) ==
    IF err.name = "CreditLineNotFoundError"
    THEN Response(404, [error |-> Message(err)])
    ELSE IF err.name = "InvalidTransitionError"
    THEN Response(400, [error |-> Message(err)])
    ELSE Response(500, [error |-> Message(err)])

handleServiceError(err) ==
    IF err.name = "CreditLineNotFoundError"
    THEN Response(404, [error |-> Message(err)])
    ELSE IF err.name = "InvalidTransitionError"
    THEN Response(409, [error |-> Message(err)])
    ELSE Response(500, [error |-> Message(err)])

\* The handler of POST /lines/:id/suspend or /close, after adminAuth called
\* next(): the registry after it and the response it sends.
transitionRoute(s, kind, id, ts) ==
    LET r == IF kind = "suspend" THEN suspendCreditLine(s, id, ts)
             ELSE closeCreditLine(s, id, ts)
        msg == IF kind = "suspend" THEN "Credit line suspended."
               ELSE "Credit line closed."
    IN [store |-> r.store,
        res |-> IF r.outcome = "ok"
                THEN Response(200, [data |-> r.ret, message |-> msg])
                ELSE handleServiceError(r.err)]

\* the return after the middleware's rejection left out: next() runs the
\* handler although the response was sent
postTransitionNoReturn(s, env, req, ts) ==
    LET auth == adminAuth(env, req.key) IN
    IF auth.status # 0
    THEN [store |-> transitionRoute(s, req.kind, req.id, ts).store, res |-> auth]
    ELSE transitionRoute(s, req.kind, req.id, ts)

\* A whole request: the middleware, then the handler when it called next().
postTransition(s, env, req, ts) ==
    LET auth == adminAuth(env, req.key) IN
    IF auth.status # 0 THEN [store |-> s, res |-> auth]
    ELSE transitionRoute(s, req.kind, req.id, ts)

\* GET /lines
listRoute(s) ==
    LET r == listCreditLines(s) IN
    [store |-> r.store, res |-> Response(200, [data |-> r.ret])]

\* GET /lines/:id
getRoute(s, id) ==
    LET r == getCreditLine(s, id) IN
    [store |-> r.store,
     res |-> IF r.ret = Undefined
             THEN Response(404, [error |-> <<"not found", id>>])
             ELSE Response(200, [data |-> r.ret])]

\* The router: the route of the request's kind.
route(s, env, req, ts) ==
    IF req.kind = "list" THEN listRoute(s)
    ELSE IF req.kind = "get" THEN getRoute(s, req.id)
    ELSE postTransition(s, env, req, ts)

----------------------------------------------------------------------------
(* State of the other modules when the process starts: the horizon         *)
(* listener as its module initialises it, no timer and no call pending,    *)
(* an empty migrations directory and an empty database.                    *)

Null == [null |-> TRUE]

\* No CLI process was started.
NoProcess == [pc |-> "none"]

InitListener ==
    /\ running = FALSE
    /\ intervalHandle = Null
    /\ eventHandlers = <<>>
    /\ activeConfig = Null
    /\ timers = {}
    /\ calls = EmptyBag

EmptyDatabase ==
    [schema_migrations |-> [exists |-> FALSE, versions |-> {}],
     tables |-> {},
     log |-> <<>>]

InitDatabase ==
    /\ dir = {}
    /\ db = EmptyDatabase
    /\ runs = <<>>
    /\ cli = NoProcess

----------------------------------------------------------------------------
(* Spec: direct calls of the service functions *)

NoCall == [op |-> "none", id |-> "none", outcome |-> "ok",
           ret |-> Undefined, err |-> NoError]

Result(op, id, r) ==
    [op |-> op, id |-> id, outcome |-> r.outcome, ret |-> r.ret, err |-> r.err]

Init ==
    /\ store = <<>>
    /\ clock = 0
    /\ last = NoCall
    /\ adminKey = NoValue
    /\ reqs = <<>>
    /\ InitListener
    /\ InitDatabase

Tick ==
    /\ clock < MaxClock
    /\ clock' = clock + 1
    /\ UNCHANGED <<store, last, adminKey, reqs, lvars, dvars>>

CallCreate(id, statusArg) ==
    LET r == createCreditLine(store, id, statusArg, clock) IN
    /\ store' = r.store
    /\ last' = Result("create", id, r)
    /\ UNCHANGED <<clock, adminKey, reqs, lvars, dvars>>

CallGet(id) ==
    LET r == getCreditLine(store, id) IN
    /\ store' = r.store
    /\ last' = Result("get", id, r)
    /\ UNCHANGED <<clock, adminKey, reqs, lvars, dvars>>

CallList ==
    LET r == listCreditLines(store) IN
    /\ store' = r.store
    /\ last' = Result("list", "none", r)
    /\ UNCHANGED <<clock, adminKey, reqs, lvars, dvars>>

CallSuspend(id) ==
    LET r == suspendCreditLine(store, id, clock) IN
    /\ store' = r.store
    /\ last' = Result("suspend", id, r)
    /\ UNCHANGED <<clock, adminKey, reqs, lvars, dvars>>

CallClose(id) ==
    LET r == closeCreditLine(store, id, clock) IN
    /\ store' = r.store
    /\ last' = Result("close", id, r)
    /\ UNCHANGED <<clock, adminKey, reqs, lvars, dvars>>

Next ==
    \/ Tick
    \/ \E id \in Ids, st \in CreditLineStatus \cup {Omitted} : CallCreate(id, st)
    \/ \E id \in Ids : CallGet(id)
    \/ CallList
    \/ \E id \in Ids : CallSuspend(id)
    \/ \E id \in Ids : CallClose(id)

Spec == Init /\ [][Next]_vars

----------------------------------------------------------------------------
(* SpecDefault: the service functions called directly, every line created  *)
(* with the default status (createCreditLine(id), no second argument).     *)

NextDefault ==
    \/ Tick
    \/ \E id \in Ids : CallCreate(id, Omitted)
    \/ \E id \in Ids : CallGet(id)
    \/ CallList
    \/ \E id \in Ids : CallSuspend(id)
    \/ \E id \in Ids : CallClose(id)

SpecDefault == Init /\ [][NextDefault]_vars

----------------------------------------------------------------------------
(* SpecHttp: a batch of requests sent at once to a server whose registry   *)
(* holds freshly created lines (createCreditLine(id), as the route tests   *)
(* seed it).  Node runs one handler at a time, to completion: adminAuth    *)
(* and the route handler contain no await, so a request is one step.       *)

NumOptions == Len(Kinds) * Len(IdSeq) * Len(Keys)

ReqOption(o) ==
    Request(Kinds[(o % Len(Kinds)) + 1],
            IdSeq[((o \div Len(Kinds)) % Len(IdSeq)) + 1],
            Keys[(o \div (Len(Kinds) * Len(IdSeq))) + 1])

\* The batches of 1..MaxReqs requests, one representative per multiset.
Batches ==
    UNION {{[i \in 1..n |-> ReqOption(f[i])] :
                f \in {g \in [1..n -> 0..(NumOptions - 1)] :
                          \A i \in 1..(n - 1) : g[i] <= g[i + 1]}} :
           n \in 1..MaxReqs}

\* The registries of freshly created lines: every sequence of distinct ids.
SeedStores ==
    {<<>>}
    \cup {createCreditLine(<<>>, x, Omitted, 0).store : x \in Ids}
    \cup {createCreditLine(createCreditLine(<<>>, x, Omitted, 0).store,
                           y, Omitted, 0).store :
              x \in Ids, y \in Ids}

InitHttp ==
    /\ store \in SeedStores
    /\ clock = 0
    /\ last = NoCall
    /\ adminKey \in EnvKeys
    /\ reqs \in Batches
    /\ InitListener
    /\ InitDatabase

HandleRequest(i) ==
    /\ reqs[i].status = 0
    /\ LET r == postTransition(store, adminKey, reqs[i], clock) IN
       /\ store' = r.store
       /\ reqs' = [reqs EXCEPT ![i].status = r.res.status,
                               ![i].body = r.res.body]
    /\ UNCHANGED <<clock, last, adminKey, lvars, dvars>>

NextHttp ==
    \/ Tick
    \/ \E i \in DOMAIN reqs : HandleRequest(i)

SpecHttp == InitHttp /\ [][NextHttp]_vars

----------------------------------------------------------------------------
(* SpecReads: a batch of GET /lines, GET /lines/:id, suspend and close     *)
(* requests in flight at once on a server configured with the admin key,   *)
(* the suspends and closes carrying it.  The GET handlers contain no await *)
(* either, and res.json serializes the lines when it is called.            *)

ReadOptions ==
    <<Request("list", NoValue, NoValue)>>
    \o [i \in 1..Len(IdSeq) |-> Request("get", IdSeq[i], NoValue)]
    \o [o \in 1..(Len(Kinds) * Len(IdSeq)) |-> ReqOption(o - 1)]

\* The batches of 1..MaxReqs requests, one representative per multiset.
ReadBatches ==
    UNION {{[i \in 1..n |-> ReadOptions[f[i]]] :
                f \in {g \in [1..n -> 1..Len(ReadOptions)] :
                          \A i \in 1..(n - 1) : g[i] <= g[i + 1]}} :
           n \in 1..MaxReqs}

InitReads ==
    /\ store \in SeedStores
    /\ clock = 0
    /\ last = NoCall
    /\ adminKey = Keys[1]
    /\ reqs \in ReadBatches
    /\ InitListener
    /\ InitDatabase

ServeRequest(i) ==
    /\ reqs[i].status = 0
    /\ LET r == route(store, adminKey, reqs[i], clock) IN
       /\ store' = r.store
       /\ reqs' = [reqs EXCEPT ![i].status = r.res.status,
                               ![i].body = r.res.body]
    /\ UNCHANGED <<clock, last, adminKey, lvars, dvars>>

NextReads ==
    \/ Tick
    \/ \E i \in DOMAIN reqs : ServeRequest(i)

SpecReads == InitReads /\ [][NextReads]_vars

----------------------------------------------------------------------------
(* SpecAuth: requests to a route protected by adminAuth alone, while the   *)
(* environment's ADMIN_API_KEY is set, emptied, changed and deleted        *)
(* between requests.  reqs holds the requests served, each with the        *)
(* environment's key at the time and the calls the middleware made.        *)

AuthKeys == {NoValue, "", "secret", "wrong"}

InitAuth ==
    /\ store = <<>>
    /\ clock = 0
    /\ last = NoCall
    /\ adminKey \in AuthKeys
    /\ reqs = <<>>
    /\ InitListener
    /\ InitDatabase

SetEnv(k) ==
    /\ k # adminKey
    /\ adminKey' = k
    /\ UNCHANGED <<store, clock, last, reqs, lvars, dvars>>

PostProtected(key) ==
    /\ Len(reqs) < MaxReqs
    /\ LET c == adminAuthCalls(adminKey, key) IN
       reqs' = Append(reqs, [key |-> key, env |-> adminKey,
                             sent |-> c.sent, next |-> c.next])
    /\ UNCHANGED <<store, clock, last, adminKey, lvars, dvars>>

NextAuth ==
    \/ \E k \in AuthKeys : SetEnv(k)
    \/ \E key \in AuthKeys : PostProtected(key)

SpecAuth == InitAuth /\ [][NextAuth]_vars

----------------------------------------------------------------------------
(* The horizon listener (src/docs/data-model.md, lines 497-674).           *)
(*                                                                         *)
(* A handler is named by what it does when called: "ok" returns (or        *)
(* returns a promise that resolves), "throws" throws synchronously,        *)
(* "rejects" returns a promise that rejects.  An async function runs       *)
(* synchronously up to its first await; what remains is a record in calls  *)
(* and resumes in a later step, so anything may run in between.            *)

Handlers == {"ok", "throws", "rejects"}

\* HorizonListenerConfig, as far as polling reads it.
Config(contractIds) == [contractIds |-> contractIds]

\* The configurations resolveConfig() returns, by the CONTRACT_IDS of the
\* environment at the time of the call.
Configs == {Config(<<>>), Config(<<"C1", "C2">>)}

HorizonEvent(contractId) ==
    [ledger |-> 1000, contractId |-> contractId,
     topics |-> <<"credit_line_created">>]

RECURSIVE dispatchEventNoCatch(_, _, _)
\* the try/catch around the handler call left out
dispatchEventNoCatch(handlers, at, acc) ==
    IF at > Len(handlers)
    THEN [at |-> 0, invoked |-> acc.invoked, logged |-> acc.logged,
          outcome |-> "resolved"]
    ELSE IF handlers[at] = "throws"
    THEN [at |-> 0, invoked |-> Append(acc.invoked, handlers[at]),
          logged |-> acc.logged, outcome |-> "rejected"]
    ELSE [at |-> at, invoked |-> Append(acc.invoked, handlers[at]),
          logged |-> acc.logged, outcome |-> "pending"]

RECURSIVE dispatchEvent(_, _, _)
\* The for-of loop of dispatchEvent over the array handlers, from index at
\* up to its first await or its end: the handlers it calls, the errors it
\* logs, and the index of the handler it awaits (0 when the loop ended).
\* acc holds what the call did before.
dispatchEvent(handlers, at, acc) ==
    IF at > Len(handlers)
    THEN [at |-> 0, invoked |-> acc.invoked, logged |-> acc.logged,
          outcome |-> "resolved"]
    ELSE IF handlers[at] = "throws"
    THEN dispatchEvent(handlers, at + 1,
                       [invoked |-> Append(acc.invoked, handlers[at]),
                        logged |-> acc.logged + 1])
    ELSE [at |-> at, invoked |-> Append(acc.invoked, handlers[at]),
          logged |-> acc.logged, outcome |-> "pending"]

\* one event for each contract id
pollOnceEveryContract(config, handlers) ==
    IF Len(config.contractIds) > 0
    THEN LET d == dispatchEvent(handlers, 1, [invoked |-> <<>>, logged |-> 0])
         IN [events |-> [k \in DOMAIN config.contractIds |->
                            HorizonEvent(config.contractIds[k])],
             at |-> d.at, invoked |-> d.invoked, logged |-> d.logged,
             outcome |-> d.outcome]
    ELSE [events |-> <<>>, at |-> 0, invoked |-> <<>>, logged |-> 0,
          outcome |-> "resolved"]

\* pollOnce up to its first await: the events it emits and the dispatch
\* of the event as far as it gets.
pollOnce(config, handlers) ==
    IF Len(config.contractIds) > 0
    THEN LET d == dispatchEvent(handlers, 1, [invoked |-> <<>>, logged |-> 0])
         IN [events |-> <<HorizonEvent(config.contractIds[1])>>,
             at |-> d.at, invoked |-> d.invoked, logged |-> d.logged,
             outcome |-> d.outcome]
    ELSE [events |-> <<>>, at |-> 0, invoked |-> <<>>, logged |-> 0,
          outcome |-> "resolved"]

\* A suspended call: pollOnce made by start(), by a timer or directly
\* ("call"), its dispatch awaiting handler at (0: the loop ended and
\* start() awaits the settled pollOnce).  config is kept for start(), which
\* reads it again after the await.  registered: the number of handlers
\* when the dispatch began (0 when no event was emitted); cleared:
\* clearEventHandlers() ran since.
Pending(by, config, registered, p) ==
    [by |-> by, config |-> IF by = "start" THEN config ELSE Null,
     at |-> p.at, delivered |-> p.invoked, outcome |-> p.outcome,
     registered |-> IF p.events = <<>> THEN 0 ELSE Len(registered),
     cleared |-> FALSE]

Suspend(c) == calls (+) SetToBag({c})

Settle(c) == calls (-) SetToBag({c})

\* What the most recent step of the listener did.
Did(op, by, noop, events, invoked, logged, settled) ==
    [op |-> op, by |-> by, noop |-> noop, events |-> events,
     invoked |-> invoked, logged |-> logged, settled |-> settled]

Nothing == Did("none", "none", FALSE, <<>>, <<>>, 0, "none")

\* The number of start() calls awaiting their first poll.
Starting ==
    LET mine == {c \in BagToSet(calls) : c.by = "start"}
    IN BagCardinality([c \in mine |-> calls[c]])

\* setInterval's new handle.
NewTimer ==
    [timer |-> CHOOSE n \in 1..MaxTimers :
                  /\ \A t \in timers : t.handle # [timer |-> n]
                  /\ \A m \in 1..(n - 1) : \E t \in timers : t.handle = [timer |-> m]]

\* start(), up to the await of the first poll; config is what
\* resolveConfig() returns at this moment.
Start(config) ==
    /\ \/ /\ running
          /\ last' = Did("start", "call", TRUE, <<>>, <<>>, 0, "resolved")
          /\ UNCHANGED lvars
       \/ /\ ~running
          /\ BagCardinality(calls) < MaxCalls
          /\ Cardinality(timers) + Starting < MaxTimers
          /\ LET p == pollOnce(config, eventHandlers) IN
             /\ activeConfig' = config
             /\ running' = TRUE
             /\ calls' = Suspend(Pending("start", config, eventHandlers, p))
             /\ last' = Did("start", "start", FALSE, p.events, p.invoked,
                            p.logged, "none")
          /\ UNCHANGED <<intervalHandle, eventHandlers, timers>>
    /\ UNCHANGED <<store, clock, adminKey, reqs, dvars>>

\* start() after its await of pollOnce(config): it schedules the timer.
StartResumes(c) ==
    /\ c.by = "start"
    /\ c.at = 0
    /\ IF c.outcome = "rejected"
       THEN /\ last' = Did("started", "start", FALSE, <<>>, <<>>, 0, "rejected")
            /\ UNCHANGED <<intervalHandle, timers>>
       ELSE /\ intervalHandle' = NewTimer
            /\ timers' = timers \cup {[handle |-> NewTimer, config |-> c.config]}
            /\ last' = Did("started", "start", FALSE, <<>>, <<>>, 0, "resolved")
    /\ calls' = Settle(c)
    /\ UNCHANGED <<running, eventHandlers, activeConfig>>
    /\ UNCHANGED <<store, clock, adminKey, reqs, dvars>>

\* stop() emptying the handler array as well
StopClearsHandlers ==
    /\ \/ /\ ~running
          /\ last' = Did("stop", "call", TRUE, <<>>, <<>>, 0, "none")
          /\ UNCHANGED lvars
       \/ /\ running
          /\ IF intervalHandle # Null
             THEN /\ timers' = {t \in timers : t.handle # intervalHandle}
                  /\ intervalHandle' = Null
             ELSE UNCHANGED <<timers, intervalHandle>>
          /\ running' = FALSE
          /\ activeConfig' = Null
          /\ eventHandlers' = <<>>
          /\ last' = Did("stop", "call", FALSE, <<>>, <<>>, 0, "none")
          /\ UNCHANGED calls
    /\ UNCHANGED <<store, clock, adminKey, reqs, dvars>>

\* the reset of activeConfig left out
StopKeepsConfig ==
    /\ \/ /\ ~running
          /\ last' = Did("stop", "call", TRUE, <<>>, <<>>, 0, "none")
          /\ UNCHANGED lvars
       \/ /\ running
          /\ IF intervalHandle # Null
             THEN /\ timers' = {t \in timers : t.handle # intervalHandle}
                  /\ intervalHandle' = Null
             ELSE UNCHANGED <<timers, intervalHandle>>
          /\ running' = FALSE
          /\ last' = Did("stop", "call", FALSE, <<>>, <<>>, 0, "none")
          /\ UNCHANGED <<eventHandlers, calls, activeConfig>>
    /\ UNCHANGED <<store, clock, adminKey, reqs, dvars>>

Stop ==
    /\ \/ /\ ~running
          /\ last' = Did("stop", "call", TRUE, <<>>, <<>>, 0, "none")
          /\ UNCHANGED lvars
       \/ /\ running
          /\ IF intervalHandle # Null
             THEN /\ timers' = {t \in timers : t.handle # intervalHandle}
                  /\ intervalHandle' = Null
             ELSE UNCHANGED <<timers, intervalHandle>>
          /\ running' = FALSE
          /\ activeConfig' = Null
          /\ last' = Did("stop", "call", FALSE, <<>>, <<>>, 0, "none")
          /\ UNCHANGED <<eventHandlers, calls>>
    /\ UNCHANGED <<store, clock, adminKey, reqs, dvars>>

\* A pollOnce(config) begun by a timer's callback or by a direct call.
Poll(by, config) ==
    /\ BagCardinality(calls) < MaxCalls
    /\ LET p == pollOnce(config, eventHandlers) IN
       /\ calls' = IF p.at > 0
                   THEN Suspend(Pending(by, config, eventHandlers, p))
                   ELSE calls
       /\ last' = Did("pollOnce", by, FALSE, p.events, p.invoked, p.logged,
                      IF p.at > 0 THEN "none" ELSE p.outcome)
    /\ UNCHANGED <<running, intervalHandle, eventHandlers, activeConfig, timers>>
    /\ UNCHANGED <<store, clock, adminKey, reqs, dvars>>

\* An interval elapses for the timer t: its callback runs.
TimerFires(t) == Poll("timer", t.config)

\* pollOnce(config) called by the application.
CallPollOnce(config) == Poll("call", config)

\* The handler awaited by the call c settles and the dispatch goes on, over
\* the array as it is now.
Resume(c) ==
    /\ c.at > 0
    /\ LET failed == IF c.delivered[Len(c.delivered)] = "rejects" THEN 1 ELSE 0
           d == dispatchEvent(eventHandlers, c.at + 1,
                              [invoked |-> <<>>, logged |-> failed])
           c2 == [c EXCEPT !.at = d.at, !.delivered = c.delivered \o d.invoked,
                           !.outcome = d.outcome]
       IN /\ calls' = IF d.at = 0 /\ c.by # "start"
                      THEN Settle(c)
                      ELSE Settle(c) (+) SetToBag({c2})
          /\ last' = Did("resume", c.by, FALSE, <<>>, d.invoked, d.logged,
                         IF d.at = 0 THEN d.outcome ELSE "none")
    /\ UNCHANGED <<running, intervalHandle, eventHandlers, activeConfig, timers>>
    /\ UNCHANGED <<store, clock, adminKey, reqs, dvars>>

OnEvent(handler) ==
    /\ Len(eventHandlers) < MaxHandlers
    /\ eventHandlers' = Append(eventHandlers, handler)
    /\ last' = Did("onEvent", "call", FALSE, <<>>, <<>>, 0, "none")
    /\ UNCHANGED <<running, intervalHandle, activeConfig, timers, calls>>
    /\ UNCHANGED <<store, clock, adminKey, reqs, dvars>>

ClearEventHandlers ==
    /\ eventHandlers' = <<>>
    /\ calls' = LET mark(c) == IF c.at > 0 THEN [c EXCEPT !.cleared = TRUE] ELSE c
                     marked == {mark(c) : c \in BagToSet(calls)}
                 IN [m \in marked |->
                        BagCardinality([c \in {x \in BagToSet(calls) : mark(x) = m}
                                           |-> calls[c]])]
    /\ last' = Did("clearEventHandlers", "call", FALSE, <<>>, <<>>, 0, "none")
    /\ UNCHANGED <<running, intervalHandle, activeConfig, timers>>
    /\ UNCHANGED <<store, clock, adminKey, reqs, dvars>>

InitHorizon ==
    /\ store = <<>>
    /\ clock = 0
    /\ last = Nothing
    /\ adminKey = NoValue
    /\ reqs = <<>>
    /\ InitListener
    /\ InitDatabase

\* SpecHorizon: start(), stop() and the timers in every interleaving, with
\* handlers that return promises (the handlers a dispatch awaits).
NextHorizon ==
    \/ \E config \in Configs : Start(config)
    \/ \E c \in BagToSet(calls) : StartResumes(c)
    \/ Stop
    \/ \E t \in timers : TimerFires(t)
    \/ \E c \in BagToSet(calls) : Resume(c)
    \/ OnEvent("ok")

SpecHorizon == InitHorizon /\ [][NextHorizon]_vars

\* SpecDispatch: one poll at a time, by start() or called directly, over
\* handlers of every kind, registered and cleared at any moment, also
\* while the poll awaits a handler.
NextDispatch ==
    \/ \E config \in Configs : calls = EmptyBag /\ Start(config)
    \/ \E c \in BagToSet(calls) : StartResumes(c)
    \/ \E config \in Configs : calls = EmptyBag /\ CallPollOnce(config)
    \/ \E c \in BagToSet(calls) : Resume(c)
    \/ \E handler \in Handlers : OnEvent(handler)
    \/ ClearEventHandlers

SpecDispatch == InitHorizon /\ [][NextDispatch]_vars

----------------------------------------------------------------------------
(* The migration runner (src/db/migrations.ts, in src/unnamed/part_002,    *)
(* lines 85-182).  A file name or a version is the sequence of its         *)
(* characters.  What a migration's SQL does to the schema is not part of   *)
(* the runner: the database keeps the files whose SQL it ran (log).        *)

\* The UTF-16 code unit of a character, which Array.prototype.sort and
\* String comparison order by.
Code(c) ==
    CASE c = "." -> 46 [] c = "0" -> 48 [] c = "1" -> 49 [] c = "2" -> 50
      [] c = "l" -> 108 [] c = "q" -> 113 [] c = "s" -> 115

RECURSIVE LexLess(_, _)
\* a < b for strings.
LexLess(a, b) ==
    IF a = <<>> THEN b # <<>>
    ELSE IF b = <<>> THEN FALSE
    ELSE IF a[1] = b[1] THEN LexLess(Tail(a), Tail(b))
    ELSE Code(a[1]) < Code(b[1])

RECURSIVE sort(_)
\* names.sort(): the least name first, then the others sorted.
sort(names) ==
    IF names = <<>> THEN <<>>
    ELSE LET least == CHOOSE k \in DOMAIN names :
                         \A j \in DOMAIN names :
                            ~LexLess(names[j], names[k]) \/ j = k
             rest == [j \in 1..(Len(names) - 1) |->
                         IF j < least THEN names[j] ELSE names[j + 1]]
         IN <<names[least]>> \o sort(rest)

\* name.endsWith('.sql')
endsWithSql(name) ==
    /\ Len(name) >= 4
    /\ SubSeq(name, Len(name) - 3, Len(name)) = <<".", "s", "q", "l">>

versionFromFilename(filename) ==
    IF ~endsWithSql(filename) THEN filename
    ELSE SubSeq(filename, 1, Len(filename) - 4)

\* the .sort() left out: the files in the order readdir gives them
listMigrationFilesUnsorted(entries) ==
    LET files == SelectSeq(entries, LAMBDA e : e.isFile /\ endsWithSql(e.name))
    IN [k \in DOMAIN files |-> files[k].name]

\* listMigrationFiles, of the entries readdir returned (in its order).
listMigrationFiles(entries) ==
    LET files == SelectSeq(entries, LAMBDA e : e.isFile /\ endsWithSql(e.name))
    IN sort([k \in DOMAIN files |-> files[k].name])

\* CREATE TABLE IF NOT EXISTS schema_migrations
ensureSchemaMigrations(database) ==
    [database EXCEPT !.schema_migrations.exists = TRUE]

\* The set of a sequence's members, as a sequence in ascending order.
Ascending(set) ==
    sort(CHOOSE s \in [1..Cardinality(set) -> set] :
            \A i, j \in 1..Cardinality(set) : i # j => s[i] # s[j])

\* getAppliedVersions: the database after it and the versions returned
\* (SELECT version ... ORDER BY version).
getAppliedVersions(database) ==
    LET d == ensureSchemaMigrations(database) IN
    [db |-> d, ret |-> Ascending(d.schema_migrations.versions)]

\* the INSERT of the version left out
recordVersionNever(database, version) == database

\* INSERT INTO schema_migrations (version, ...) ON CONFLICT DO NOTHING
recordVersion(database, version) ==
    [database EXCEPT !.schema_migrations.versions = @ \cup {version}]

\* client.query(sql) of the migration file: the database ran it.
executeSql(database, filename) ==
    [database EXCEPT !.log = Append(@, filename)]

RECURSIVE nextPending(_, _, _)
\* The for loop of runPendingMigrations from files[k] on, up to the next
\* file it applies: its index, or 0 when the loop ends.
nextPending(files, k, appliedSet) ==
    IF k > Len(files) THEN 0
    ELSE IF versionFromFilename(files[k]) \in appliedSet
    THEN nextPending(files, k + 1, appliedSet)
    ELSE k

\* The directory entries of the model: 10.sql and 2.sql, a file 1.sq and
\* a directory named 1.sql.
Entry(name, isFile) == [name |-> name, isFile |-> isFile]

DirEntries ==
    {Entry(<<"1", "0", ".", "s", "q", "l">>, TRUE),
     Entry(<<"2", ".", "s", "q", "l">>, TRUE),
     Entry(<<"1", ".", "s", "q">>, TRUE),
     Entry(<<"1", ".", "s", "q", "l">>, FALSE)}

\* The versions a database may hold when the runner first meets it.
OldVersions == {<<"1", "0">>, <<"2">>, <<"0">>}

\* readdir(dir): the entries in some order.
Readdir(entries) ==
    {s \in [1..Cardinality(entries) -> entries] :
        \A i, j \in 1..Cardinality(entries) : i # j => s[i] # s[j]}

\* A runPendingMigrations call: its local variables applied, files,
\* appliedSet and run, the index k of the file it is applying, and where
\* it is: "sql" (awaiting the file's SQL), "insert" (awaiting the INSERT),
\* "done" (returned run) or "failed" (rejected).  entries and since keep
\* the directory and the length of the database's log when it began.
Run(pc, applied, files, k, appliedSet, run, entries, since) ==
    [pc |-> pc, applied |-> applied, files |-> files, k |-> k,
     appliedSet |-> appliedSet, run |-> run, entries |-> entries,
     since |-> since]

Finished(r) == r.pc \in {"done", "failed"}

\* runPendingMigrations up to its first applyMigration (or its return).
RunPendingMigrations ==
    /\ Len(runs) < MaxRuns
    /\ \E entries \in Readdir(dir) :
          LET a == getAppliedVersions(db)
              files == listMigrationFiles(entries)
              appliedSet == {a.ret[j] : j \in DOMAIN a.ret}
              k == nextPending(files, 1, appliedSet)
          IN /\ db' = a.db
             /\ runs' = Append(runs,
                   Run(IF k = 0 THEN "done" ELSE "sql", a.ret, files, k,
                       appliedSet, <<>>, dir, Len(db.log)))
    /\ UNCHANGED <<dir, cli>>
    /\ UNCHANGED <<store, clock, last, adminKey, reqs, lvars>>

\* the failure of the file's SQL swallowed
ExecuteSqlIgnoresFailure(i, ok) ==
    /\ runs[i].pc = "sql"
    /\ db' = IF ok THEN executeSql(db, runs[i].files[runs[i].k]) ELSE db
    /\ runs' = [runs EXCEPT ![i].pc = "insert"]
    /\ UNCHANGED <<dir, cli>>
    /\ UNCHANGED <<store, clock, last, adminKey, reqs, lvars>>

\* applyMigration: the file's SQL runs (or fails, and the run rejects).
ExecuteSql(i, ok) ==
    /\ runs[i].pc = "sql"
    /\ IF ok
       THEN /\ db' = executeSql(db, runs[i].files[runs[i].k])
            /\ runs' = [runs EXCEPT ![i].pc = "insert"]
       ELSE /\ db' = db
            /\ runs' = [runs EXCEPT ![i].pc = "failed"]
    /\ UNCHANGED <<dir, cli>>
    /\ UNCHANGED <<store, clock, last, adminKey, reqs, lvars>>

\* applyMigration: the INSERT of the version (or its failure); then the
\* loop goes on to the next pending file or returns.
RecordVersion(i, ok) ==
    /\ runs[i].pc = "insert"
    /\ LET r == runs[i]
           version == versionFromFilename(r.files[r.k])
           appliedSet == r.appliedSet \cup {version}
           k == nextPending(r.files, r.k + 1, appliedSet)
       IN IF ok
          THEN /\ db' = recordVersion(db, version)
               /\ runs' = [runs EXCEPT ![i].run = Append(@, version),
                                       ![i].appliedSet = appliedSet,
                                       ![i].k = k,
                                       ![i].pc = IF k = 0 THEN "done" ELSE "sql"]
          ELSE /\ db' = db
               /\ runs' = [runs EXCEPT ![i].pc = "failed"]
    /\ UNCHANGED <<dir, cli>>
    /\ UNCHANGED <<store, clock, last, adminKey, reqs, lvars>>

\* A developer adds an entry to the migrations directory.
AddFile(e) ==
    /\ e \notin dir
    /\ dir' = dir \cup {e}
    /\ UNCHANGED <<db, runs, cli>>
    /\ UNCHANGED <<store, clock, last, adminKey, reqs, lvars>>

\* SpecMigrate: runs of the migrate CLI one after the other, against a
\* database that holds some versions already or has no schema_migrations
\* table yet, the directory growing between runs.
Idle == \A i \in DOMAIN runs : Finished(runs[i])

InitMigrate ==
    /\ store = <<>>
    /\ clock = 0
    /\ last = NoCall
    /\ adminKey = NoValue
    /\ reqs = <<>>
    /\ InitListener
    /\ dir \in SUBSET DirEntries
    /\ db \in {[EmptyDatabase EXCEPT !.schema_migrations =
                    [exists |-> x, versions |-> v]] :
                  x \in BOOLEAN, v \in SUBSET OldVersions}
    /\ db.schema_migrations.exists \/ db.schema_migrations.versions = {}
    /\ runs = <<>>
    /\ cli = NoProcess

NextMigrate ==
    \/ Idle /\ RunPendingMigrations
    \/ \E i \in DOMAIN runs, ok \in BOOLEAN : ExecuteSql(i, ok)
    \/ \E i \in DOMAIN runs, ok \in BOOLEAN : RecordVersion(i, ok)
    \/ \E e \in DirEntries : Idle /\ AddFile(e)

SpecMigrate == InitMigrate /\ [][NextMigrate]_vars

\* SpecConcurrent: runs of the migrate CLI started at any time, also while
\* an earlier one is between two of its queries, against the same database
\* and directory.
NextConcurrent ==
    \/ RunPendingMigrations
    \/ \E i \in DOMAIN runs, ok \in BOOLEAN : ExecuteSql(i, ok)
    \/ \E i \in DOMAIN runs, ok \in BOOLEAN : RecordVersion(i, ok)

SpecConcurrent == InitMigrate /\ [][NextConcurrent]_vars

----------------------------------------------------------------------------
(* Schema validation (src/src/db/validate-schema.ts) *)

EXPECTED_TABLES ==
    <<"borrowers", "credit_lines", "risk_evaluations", "transactions", "events">>

\* The tables a database may have, in the order its catalog lists them.
Catalog ==
    <<"borrowers", "credit_lines", "events", "risk_evaluations",
      "schema_migrations", "transactions">>

\* SELECT table_name FROM information_schema.tables WHERE ... IN (tables)
queryTables(database, tables) ==
    SelectSeq(Catalog, LAMBDA t : t \in database.tables
                                   /\ \E k \in DOMAIN tables : tables[k] = t)

\* the negation in the filter left out
missingTablesFound(database, tablesArg) ==
    LET tables == IF tablesArg = Omitted THEN EXPECTED_TABLES ELSE tablesArg
        found == queryTables(database, tables)
        foundSet == {found[k] : k \in DOMAIN found}
    IN SelectSeq(tables, LAMBDA t : t \in foundSet)

missingTables(database, tablesArg) ==
    LET tables == IF tablesArg = Omitted THEN EXPECTED_TABLES ELSE tablesArg
        found == queryTables(database, tables)
        foundSet == {found[k] : k \in DOMAIN found}
    IN SelectSeq(tables, LAMBDA t : t \notin foundSet)

\* validateSchema: resolves, or rejects with the Error it throws.
validateSchema(database) ==
    LET missing == missingTables(database, Omitted) IN
    IF Len(missing) > 0
    THEN [outcome |-> "throw", ret |-> Undefined,
          err |-> [name |-> "Error", message |-> <<"Missing tables: ", missing>>]]
    ELSE [outcome |-> "ok", ret |-> Undefined, err |-> NoError]

\* The lists of tables asked for: the default, lists in another order than
\* the catalog's, and the empty list.
TableLists ==
    {Omitted, <<>>, <<"events", "borrowers">>,
     <<"transactions", "credit_lines", "schema_migrations", "events">>}

\* SpecSchema: missingTables and validateSchema called on a database with
\* any set of the tables.
InitSchema ==
    /\ store = <<>>
    /\ clock = 0
    /\ last = NoCall
    /\ adminKey = NoValue
    /\ reqs = <<>>
    /\ InitListener
    /\ dir = {}
    /\ db \in {[EmptyDatabase EXCEPT !.tables = ts] :
                  ts \in SUBSET {Catalog[k] : k \in DOMAIN Catalog}}
    /\ runs = <<>>
    /\ cli = NoProcess

CallMissingTables(tablesArg) ==
    /\ last' = [op |-> "missingTables", tables |-> tablesArg, outcome |-> "ok",
                ret |-> missingTables(db, tablesArg), err |-> NoError]
    /\ UNCHANGED <<store, clock, adminKey, reqs, lvars, dvars>>

CallValidateSchema ==
    /\ LET r == validateSchema(db) IN
       last' = [op |-> "validateSchema", tables |-> Omitted,
                outcome |-> r.outcome, ret |-> r.ret, err |-> r.err]
    /\ UNCHANGED <<store, clock, adminKey, reqs, lvars, dvars>>

NextSchema ==
    \/ \E tablesArg \in TableLists : CallMissingTables(tablesArg)
    \/ CallValidateSchema

SpecSchema == InitSchema /\ [][NextSchema]_vars

----------------------------------------------------------------------------
(* The migrate and validate CLIs (src/src/db/migrate-cli.ts 12-35,         *)
(* validate-cli.ts 13-36).  main() runs from one await to the next; what   *)
(* each awaited call does to the database is the runner's and the          *)
(* validator's matter, here it resolves or rejects.  cli holds where       *)
(* main() is (pc), whether the client has a connect method and is          *)
(* connected, the number of client.end() calls, process.exitCode (0 while  *)
(* it is unset) and which awaited call rejected.                           *)

CliKinds == {"migrate", "validate"}

Process(kind, pc, hasConnect, connected, ends, exitCode, failed) ==
    [kind |-> kind, pc |-> pc, hasConnect |-> hasConnect,
     connected |-> connected, ends |-> ends, exitCode |-> exitCode,
     failed |-> failed]

\* main() up to its first await: getConnection() returned the client.
Main(kind, hasConnect) ==
    /\ cli = NoProcess
    /\ cli' = Process(kind, IF hasConnect THEN "connect" ELSE "select",
                      hasConnect, FALSE, 0, 0, "none")
    /\ UNCHANGED <<dir, db, runs>>
    /\ UNCHANGED <<store, clock, last, adminKey, reqs, lvars>>

\* The catch block of the first try: exit code 1 and return.
CannotConnect(p, what) ==
    [p EXCEPT !.pc = "finished", !.exitCode = 1, !.failed = what]

\* await client.connect() settles.
Connect(ok) ==
    /\ cli.pc = "connect"
    /\ cli' = IF ok THEN [cli EXCEPT !.pc = "select", !.connected = TRUE]
              ELSE CannotConnect(cli, "connect")
    /\ UNCHANGED <<dir, db, runs>>
    /\ UNCHANGED <<store, clock, last, adminKey, reqs, lvars>>

\* await client.query('SELECT 1') settles.
SelectOne(ok) ==
    /\ cli.pc = "select"
    /\ cli' = IF ok THEN [cli EXCEPT !.pc = "migrate"]
              ELSE CannotConnect(cli, "select")
    /\ UNCHANGED <<dir, db, runs>>
    /\ UNCHANGED <<store, clock, last, adminKey, reqs, lvars>>

\* await runPendingMigrations(...) settles: the migrate CLI logs and goes
\* to the finally block, the validate CLI goes on to validateSchema; a
\* rejection is caught, exit code 1, then the finally block.
Migrated(ok) ==
    /\ cli.pc = "migrate"
    /\ cli' = IF ~ok THEN [cli EXCEPT !.pc = "end", !.exitCode = 1, !.failed = "migrate"]
              ELSE IF cli.kind = "validate" THEN [cli EXCEPT !.pc = "validate"]
              ELSE [cli EXCEPT !.pc = "end"]
    /\ UNCHANGED <<dir, db, runs>>
    /\ UNCHANGED <<store, clock, last, adminKey, reqs, lvars>>

\* await validateSchema(client) settles.
Validated ==
    /\ cli.pc = "validate"
    /\ cli' = IF validateSchema(db).outcome = "throw"
              THEN [cli EXCEPT !.pc = "end", !.exitCode = 1, !.failed = "validate"]
              ELSE [cli EXCEPT !.pc = "end"]
    /\ UNCHANGED <<dir, db, runs>>
    /\ UNCHANGED <<store, clock, last, adminKey, reqs, lvars>>

\* The finally block: await client.end(); then main() returns.
End ==
    /\ cli.pc = "end"
    /\ cli' = [cli EXCEPT !.pc = "finished", !.ends = @ + 1, !.connected = FALSE]
    /\ UNCHANGED <<dir, db, runs>>
    /\ UNCHANGED <<store, clock, last, adminKey, reqs, lvars>>

\* SpecCli: one run of either CLI against a database with any set of the
\* tables.
InitCli == InitSchema

NextCli ==
    \/ \E kind \in CliKinds, hasConnect \in BOOLEAN : Main(kind, hasConnect)
    \/ \E ok \in BOOLEAN : Connect(ok)
    \/ \E ok \in BOOLEAN : SelectOne(ok)
    \/ \E ok \in BOOLEAN : Migrated(ok)
    \/ Validated
    \/ End

SpecCli == InitCli /\ [][NextCli]_vars

----------------------------------------------------------------------------
(* Risk levels (src/src/services/creditService.ts, scoreToRiskLevel) *)

\* the first comparison made inclusive
scoreToRiskLevelInclusive(score) ==
    IF score <= 40 THEN "low"
    ELSE IF score < 70 THEN "medium"
    ELSE "high"

scoreToRiskLevel(score) ==
    IF score < 40 THEN "low"
    ELSE IF score < 70 THEN "medium"
    ELSE "high"

\* The integer scores tried: the 0..100 range of the tests and beyond it
\* on both sides.
Scores == (0 - 20)..MaxScore

\* SpecScore: scoreToRiskLevel called with any of the scores.
InitScore ==
    /\ store = <<>>
    /\ clock = 0
    /\ last = NoCall
    /\ adminKey = NoValue
    /\ reqs = <<>>
    /\ InitListener
    /\ InitDatabase

CallScoreToRiskLevel(score) ==
    /\ last' = [op |-> "scoreToRiskLevel", score |-> score, outcome |-> "ok",
                ret |-> scoreToRiskLevel(score), err |-> NoError]
    /\ UNCHANGED <<store, clock, adminKey, reqs, lvars, dvars>>

NextScore == \E score \in Scores : CallScoreToRiskLevel(score)

SpecScore == InitScore /\ [][NextScore]_vars

----------------------------------------------------------------------------
(* POST /evaluate (src/src/routes/credit.ts 73-91) and evaluateWallet     *)
(* (creditService.ts 121-153).  A body field is a JSON value: absent       *)
(* (undefined), null, a boolean, a number or a string, a string being the  *)
(* sequence of its characters.                                             *)

Str(s) == [string |-> s]

Num(n) == [number |-> n]

Bool(b) == [boolean |-> b]

\* !v
Not(v) ==
    \/ v = Undefined
    \/ v = Null
    \/ v = Str(<<>>)
    \/ v = Num(0)
    \/ v = Bool(FALSE)

\* The decimal digits of a natural number below 100.
Digits(n) ==
    LET d == <<"0", "1", "2", "3", "4", "5", "6", "7", "8", "9">>
    IN IF n < 10 THEN <<d[n + 1]>> ELSE <<d[(n \div 10) + 1], d[(n % 10) + 1]>>

\* String(v), as RegExp.prototype.test and a template literal convert.
StringOf(v) ==
    IF v = Undefined THEN <<"u", "n", "d", "e", "f", "i", "n", "e", "d">>
    ELSE IF v = Null THEN <<"n", "u", "l", "l">>
    ELSE IF "string" \in DOMAIN v THEN v.string
    ELSE IF "number" \in DOMAIN v THEN Digits(v.number)
    ELSE IF v.boolean THEN <<"t", "r", "u", "e">>
    ELSE <<"f", "a", "l", "s", "e">>

UpperCase ==
    {"A", "B", "C", "D", "E", "F", "G", "H", "I", "J", "K", "L", "M",
     "N", "O", "P", "Q", "R", "S", "T", "U", "V", "W", "X", "Y", "Z"}

\* /^G[A-Z2-7]{55}$/
isValidWalletAddress(address) ==
    LET s == StringOf(address) IN
    /\ Len(s) = 56
    /\ s[1] = "G"
    /\ \A k \in 2..56 : s[k] \in UpperCase \cup {"2", "3", "4", "5", "6", "7"}

\* A settled promise.
Resolved(v) == [outcome |-> "ok", ret |-> v, err |-> NoError]

Rejected(e) == [outcome |-> "throw", ret |-> Undefined, err |-> e]

\* evaluateWallet: the promise it returns, settled.
evaluateWallet(walletAddress, ts) ==
    IF ~isValidWalletAddress(walletAddress)
    THEN Rejected([name |-> "Error",
                   message |-> <<"Invalid wallet address: ", StringOf(walletAddress),
                                 "Must start with 'G' and be 56 alphanumeric characters.">>])
    ELSE Resolved([walletAddress |-> walletAddress,
                   score |-> Null,
                   riskLevel |-> Null,
                   message |-> "Risk evaluation placeholder",
                   evaluatedAt |-> ts])

\* What the route has imported as evaluateWallet: the service function, or
\* a stand-in that rejects with a value that is not an Error.
Services == {"evaluateWallet", "rejectsValue"}

CallService(service, walletAddress, ts) ==
    IF service = "evaluateWallet" THEN evaluateWallet(walletAddress, ts)
    ELSE Rejected([name |-> "none", value |-> "raw string throw"])

\* err instanceof Error
InstanceOfError(err) == err.name = "Error"

\* const { walletAddress } = req.body
WalletAddressOf(body) ==
    IF "walletAddress" \in DOMAIN body THEN body.walletAddress ELSE Undefined

\* the check of the body left out
evaluateRouteUnchecked(body, service, ts) ==
    [pc |-> "awaiting", called |-> <<WalletAddressOf(body)>>, sent |-> <<>>,
     promise |-> CallService(service, WalletAddressOf(body), ts)]

\* The handler up to its await: the responses sent, the calls of
\* evaluateWallet made, and the promise awaited, if any.
evaluateRoute(body, service, ts) ==
    LET walletAddress == WalletAddressOf(body) IN
    IF Not(walletAddress)
    THEN [pc |-> "done", called |-> <<>>,
          sent |-> <<Response(400, [error |-> "walletAddress is required"])>>,
          promise |-> Null]
    ELSE [pc |-> "awaiting", called |-> <<walletAddress>>, sent |-> <<>>,
          promise |-> CallService(service, walletAddress, ts)]

\* The handler after its await: res.json(result), or the catch block.
evaluateRouteResumed(promise) ==
    IF promise.outcome = "ok" THEN Response(200, promise.ret)
    ELSE Response(400, [error |-> IF InstanceOfError(promise.err)
                                  THEN promise.err.message
                                  ELSE "Unknown error"])

ValidAddress == Str([k \in 1..56 |-> IF k = 1 THEN "G" ELSE IF k % 2 = 0 THEN "C" ELSE "7"])

\* The request bodies, parsed by express.json().
Bodies ==
    {[unrelated |-> Str(<<"f">>)]}
    \cup {[walletAddress |-> v] :
            v \in {Null, Str(<<>>), Num(0), Bool(FALSE), Num(42), Bool(TRUE),
                   Str(<<"B", "A", "D">>), ValidAddress}}

\* SpecEvaluate: POST /evaluate requests, each handled up to its await when
\* it arrives and resumed later, in any order.
InitEvaluate ==
    /\ store = <<>>
    /\ clock = 0
    /\ last = NoCall
    /\ adminKey = NoValue
    /\ reqs = <<>>
    /\ InitListener
    /\ InitDatabase

PostEvaluate(body, service) ==
    /\ Len(reqs) < MaxEvaluations
    /\ LET h == evaluateRoute(body, service, clock)
       IN reqs' = Append(reqs, [body |-> body, service |-> service, pc |-> h.pc,
                                called |-> h.called, sent |-> h.sent,
                                promise |-> h.promise])
    /\ UNCHANGED <<store, clock, last, adminKey, lvars, dvars>>

EvaluateSettles(i) ==
    /\ reqs[i].pc = "awaiting"
    /\ reqs' = [reqs EXCEPT ![i].pc = "done",
                            ![i].sent = Append(@, evaluateRouteResumed(reqs[i].promise))]
    /\ UNCHANGED <<store, clock, last, adminKey, lvars, dvars>>

NextEvaluate ==
    \/ \E body \in Bodies, service \in Services : PostEvaluate(body, service)
    \/ \E i \in DOMAIN reqs : EvaluateSettles(i)

SpecEvaluate == InitEvaluate /\ [][NextEvaluate]_vars

----------------------------------------------------------------------------
(* createCreditLine called with an input object, as the tests of           *)
(* src/unnamed/part_000 60-211 call it.  createCreditLine                  *)
(* (creditService.ts 47-61) takes what it is given as the id.  An object   *)
(* is a Map key by identity: ref tells two objects of equal content apart. *)

validInput ==
    [borrowerId |-> <<"b", "1">>, initialLimit |-> 1000,
     interestRateBps |-> 500, riskScore |-> Undefined]

InputContents ==
    {validInput}
    \cup {[validInput EXCEPT !.borrowerId = b] : b \in {<<>>, <<" ", " ">>}}
    \cup {[validInput EXCEPT !.initialLimit = n] : n \in {0, 0 - 100}}
    \cup {[validInput EXCEPT !.interestRateBps = n] : n \in {0 - 1, 0}}
    \cup {[validInput EXCEPT !.riskScore = Num(n)] : n \in {0 - 1, 0, 100, 101}}

InputObjects == {[ref |-> r, fields |-> c] : r \in 1..2, c \in InputContents}

\* SpecInput: createCreditLine called with input objects.
InitInput ==
    /\ store = <<>>
    /\ clock = 0
    /\ last = NoCall
    /\ adminKey = NoValue
    /\ reqs = <<>>
    /\ InitListener
    /\ InitDatabase

CallCreateInput(input) ==
    /\ Len(store) < MaxInputs
    /\ LET r == createCreditLine(store, input, Omitted, clock) IN
       /\ store' = r.store
       /\ last' = Result("create", input, r)
    /\ UNCHANGED <<clock, adminKey, reqs, lvars, dvars>>

NextInput == \E input \in InputObjects : CallCreateInput(input)

SpecInput == InitInput /\ [][NextInput]_vars

----------------------------------------------------------------------------
(* Properties of the registry under direct calls (Spec) *)

Line(id) == MapGet(store, id)

LineAfter(id) == MapGet(store', id)

IsPrefix(s, t) == Len(s) <= Len(t) /\ \A i \in DOMAIN s : s[i] = t[i]

Actions(line) == [i \in DOMAIN line.events |-> line.events[i].action]

\* A step that is a suspendCreditLine or closeCreditLine call, whatever its id.
TransitionCall == \E id \in Ids : CallSuspend(id) \/ CallClose(id)

Edges ==
    {<<"active", "suspended">>, <<"active", "closed">>, <<"suspended", "closed">>}

\* C1: in a suspendCreditLine or closeCreditLine call every line keeps its
\* status or moves along active->suspended, active->closed or
\* suspended->closed: never suspended->active, never out of closed.
StatusFollowsEdges ==
    [][TransitionCall =>
         \A k \in Ids : MapHas(store, k) =>
            /\ MapHas(store', k)
            /\ \/ LineAfter(k).status = Line(k).status
               \/ <<Line(k).status, LineAfter(k).status>> \in Edges]_vars

\* C1 witness: a line that went active -> suspended -> closed, the close
\* being the call just made.
StatusFollowsEdgesWitness ==
    \E id \in Ids :
        /\ last.op = "close" /\ last.id = id /\ last.outcome = "ok"
        /\ MapHas(store, id)
        /\ Line(id).status = "closed"
        /\ Actions(Line(id)) = <<"created", "suspended", "closed">>

\* C2: on an id of the registry suspendCreditLine succeeds exactly when the
\* line is active and closeCreditLine exactly when it is active or suspended;
\* the record returned has the new status and is the record now stored.
TransitionSucceedsIff ==
    [][\A id \in Ids : MapHas(store, id) =>
          /\ CallSuspend(id) =>
                /\ (last'.outcome = "ok") <=> (Line(id).status = "active")
                /\ last'.outcome = "ok" =>
                      /\ last'.ret.status = "suspended"
                      /\ last'.ret = LineAfter(id)
          /\ CallClose(id) =>
                /\ (last'.outcome = "ok")
                      <=> (Line(id).status \in {"active", "suspended"})
                /\ last'.outcome = "ok" =>
                      /\ last'.ret.status = "closed"
                      /\ last'.ret = LineAfter(id)]_vars

\* C2 witness: a close that succeeded on a line suspended at an earlier time.
TransitionSucceedsIffWitness ==
    \E id \in Ids :
        /\ last.op = "close" /\ last.id = id /\ last.outcome = "ok"
        /\ last.ret = Line(id)
        /\ Len(Line(id).events) = 3
        /\ Line(id).events[2].timestamp < Line(id).events[3].timestamp

\* C5: suspendCreditLine on a line that is suspended or closed throws
\* InvalidTransitionError(the line's status, "suspend") and leaves the line
\* (status, updatedAt, events) and the rest of the registry as they were.
SuspendRejected ==
    [][\A id \in Ids :
          (/\ MapHas(store, id)
           /\ Line(id).status \in {"suspended", "closed"}
           /\ CallSuspend(id)) =>
             /\ last'.outcome = "throw"
             /\ last'.err = InvalidTransitionError(Line(id).status, "suspend")
             /\ LineAfter(id).status = Line(id).status
             /\ LineAfter(id).updatedAt = Line(id).updatedAt
             /\ LineAfter(id).events = Line(id).events
             /\ store' = store]_vars

\* C5 witness: a suspend rejected on a line suspended at an earlier time.
SuspendRejectedWitness ==
    \E id \in Ids :
        /\ last.op = "suspend" /\ last.id = id /\ last.outcome = "throw"
        /\ last.err = InvalidTransitionError("suspended", "suspend")
        /\ MapHas(store, id)
        /\ Actions(Line(id)) = <<"created", "suspended">>
        /\ Line(id).updatedAt < clock

\* C6: closeCreditLine on a closed line throws
\* InvalidTransitionError("closed", "close"), suspendCreditLine on a closed
\* line throws InvalidTransitionError("closed", "suspend"), and both leave
\* the line and the registry as they were.
ClosedRejectsAll ==
    [][\A id \in Ids :
          (MapHas(store, id) /\ Line(id).status = "closed") =>
             /\ CallClose(id) =>
                   /\ last'.outcome = "throw"
                   /\ last'.err = InvalidTransitionError("closed", "close")
                   /\ LineAfter(id) = Line(id)
                   /\ store' = store
             /\ CallSuspend(id) =>
                   /\ last'.outcome = "throw"
                   /\ last'.err = InvalidTransitionError("closed", "suspend")
                   /\ LineAfter(id) = Line(id)
                   /\ store' = store]_vars

\* C6 witness: a close rejected on a line closed at an earlier time.
ClosedRejectsAllWitness ==
    \E id \in Ids :
        /\ last.op = "close" /\ last.id = id /\ last.outcome = "throw"
        /\ last.err = InvalidTransitionError("closed", "close")
        /\ MapHas(store, id)
        /\ Line(id).status = "closed"
        /\ Len(Line(id).events) >= 2
        /\ Line(id).updatedAt < clock

\* C7: for an id that is no key of the registry getCreditLine returns
\* undefined, suspendCreditLine and closeCreditLine throw
\* CreditLineNotFoundError(id), and the registry stays as it was.
UnknownIdNotFound ==
    [][\A id \in Ids : ~MapHas(store, id) =>
          /\ CallGet(id) =>
                last'.outcome = "ok" /\ last'.ret = Undefined /\ store' = store
          /\ CallSuspend(id) =>
                /\ last'.outcome = "throw"
                /\ last'.err = CreditLineNotFoundError(id)
                /\ store' = store
          /\ CallClose(id) =>
                /\ last'.outcome = "throw"
                /\ last'.err = CreditLineNotFoundError(id)
                /\ store' = store]_vars

\* C7 witness: a close of an id that is not in a registry holding another line.
UnknownIdNotFoundWitness ==
    \E id \in Ids :
        /\ last.op = "close" /\ last.id = id
        /\ last.err = CreditLineNotFoundError(id)
        /\ ~MapHas(store, id)
        /\ store # <<>>

\* C8: a suspendCreditLine or closeCreditLine call that changes a line's
\* status appends exactly one event to it, "suspended" for suspend and
\* "closed" for close; a line whose status does not change gets no event.
OneEventPerTransition ==
    [][\A id \in Ids : (CallSuspend(id) \/ CallClose(id)) =>
          \A k \in Ids : MapHas(store, k) =>
             /\ MapHas(store', k)
             /\ IF last'.outcome = "ok" /\ k = id
                THEN /\ LineAfter(k).status # Line(k).status
                     /\ Len(LineAfter(k).events) = Len(Line(k).events) + 1
                     /\ IsPrefix(Line(k).events, LineAfter(k).events)
                     /\ LineAfter(k).events[Len(LineAfter(k).events)].action
                           = (IF last'.op = "suspend" THEN "suspended" ELSE "closed")
                ELSE /\ LineAfter(k).status = Line(k).status
                     /\ LineAfter(k).events = Line(k).events]_vars

\* C8 witness: a suspend that succeeded: two events, the last one "suspended".
OneEventPerTransitionWitness ==
    \E id \in Ids :
        /\ last.op = "suspend" /\ last.id = id /\ last.outcome = "ok"
        /\ MapHas(store, id)
        /\ Actions(Line(id)) = <<"created", "suspended">>

\* C9: over every step of the registry (create, get, list, suspend, close)
\* the events a line had are a prefix of the events the line stored under
\* the same id has afterwards, and the first entry is the created event.
\* createCreditLine on an id already stored breaks it: Map.set replaces the
\* line, and its log, by a fresh one.
EventLogAppendOnly ==
    [][\A id \in Ids : MapHas(store, id) =>
          /\ MapHas(store', id)
          /\ IsPrefix(Line(id).events, LineAfter(id).events)
          /\ LineAfter(id).events[1].action = "created"]_vars

\* C10: over every step of the registry an id that is stored stays stored,
\* and a line that is closed stays closed.  createCreditLine on the id of a
\* closed line breaks it: the fresh line stored under the id is active.
ClosedIsTerminal ==
    [][\A id \in Ids : MapHas(store, id) =>
          /\ MapHas(store', id)
          /\ Line(id).status = "closed" => LineAfter(id).status = "closed"]_vars

\* C11: createCreditLine(id) without a status stores and returns a line
\* with that id, status active, the single event "created" and createdAt
\* equal to updatedAt; with a status argument the stored status is the
\* argument and the log is still the single created event; a getCreditLine
\* of the id right after the create returns that line.
CreateStoresFreshLine ==
    [][\A id \in Ids :
          /\ \A st \in CreditLineStatus \cup {Omitted} : CallCreate(id, st) =>
                /\ last'.outcome = "ok"
                /\ last'.ret.id = id
                /\ last'.ret.status = (IF st = Omitted THEN "active" ELSE st)
                /\ Actions(last'.ret) = <<"created">>
                /\ last'.ret.createdAt = last'.ret.updatedAt
                /\ LineAfter(id) = last'.ret
          /\ (CallGet(id) /\ last.op = "create" /\ last.id = id) =>
                last'.ret = last.ret]_vars

\* C11 witness: a get that follows a create without a status and returns
\* the active line with its single created event.
CreateStoresFreshLineWitness ==
    \E id \in Ids :
        /\ last.op = "get" /\ last.id = id
        /\ last.ret = Line(id)
        /\ MapHas(store, id)
        /\ Line(id).status = "active"
        /\ Actions(Line(id)) = <<"created">>
        /\ Line(id).createdAt = clock

\* C12: createCreditLine on an id that is already stored does not throw: the
\* line stored under the id becomes a fresh one (status from the argument,
\* the single created event, stamped now), the number of stored lines and
\* the other lines stay as they were.
CreateOverwritesSilently ==
    [][\A id \in Ids, st \in CreditLineStatus \cup {Omitted} :
          (MapHas(store, id) /\ CallCreate(id, st)) =>
             /\ last'.outcome = "ok"
             /\ LineAfter(id).status = (IF st = Omitted THEN "active" ELSE st)
             /\ LineAfter(id).events = <<CreditLineEvent("created", clock)>>
             /\ LineAfter(id).createdAt = clock
             /\ LineAfter(id).updatedAt = clock
             /\ Len(store') = Len(store)
             /\ \A k \in Ids \ {id} : LineAfter(k) = Line(k)]_vars

\* C12 witness: the line that was inserted first is younger than the one
\* inserted second, so it was created again, and that create was the
\* call just made.
CreateOverwritesSilentlyWitness ==
    /\ Len(store) = 2
    /\ last.op = "create" /\ last.id = store[1].key /\ last.outcome = "ok"
    /\ store[1].value.createdAt > store[2].value.createdAt
    /\ Actions(store[2].value) = <<"created", "suspended">>

\* C13: a suspendCreditLine or closeCreditLine call on id leaves the set of
\* ids and every line stored under another id (status, updatedAt, events)
\* as they were; a call that throws leaves the whole registry as it was.
TransitionTouchesOneLine ==
    [][\A id \in Ids : (CallSuspend(id) \/ CallClose(id)) =>
          /\ MapKeys(store') = MapKeys(store)
          /\ Len(store') = Len(store)
          /\ \A k \in Ids \ {id} : LineAfter(k) = Line(k)
          /\ last'.outcome = "throw" => store' = store]_vars

\* C13 witness: a close that succeeded on one line while another line,
\* created earlier, is still active with its single event.
TransitionTouchesOneLineWitness ==
    \E id \in Ids, k \in Ids :
        /\ k # id
        /\ last.op = "close" /\ last.id = id /\ last.outcome = "ok"
        /\ MapHas(store, id) /\ MapHas(store, k)
        /\ Line(id).status = "closed"
        /\ Line(k).status = "active"
        /\ Line(k).updatedAt < Line(id).updatedAt

\* C14: a getCreditLine or listCreditLines call leaves the registry (ids,
\* order, every line's status, timestamps and events) as it was, whatever
\* the id asked for.
ReadsChangeNothing ==
    [][((\E id \in Ids : CallGet(id)) \/ CallList) => store' = store]_vars

\* C14 witness: a get of an id that is not stored, in a registry that holds
\* another line.
ReadsChangeNothingWitness ==
    \E id \in Ids :
        /\ last.op = "get" /\ last.id = id
        /\ last.ret = Undefined
        /\ ~MapHas(store, id)
        /\ Len(store) = 1

KeySeq(m) == [i \in DOMAIN m |-> m[i].key]

\* C15: listCreditLines returns one entry per stored id, none twice and
\* none missing, each the stored line, in the order in which the ids were
\* first created: a create of a new id puts it last, a create of a stored
\* id and every other call leave the order alone; the list of the empty
\* registry is empty.
ListInCreationOrder ==
    [][/\ CallList =>
             /\ last'.outcome = "ok"
             /\ Len(last'.ret) = Cardinality(MapKeys(store))
             /\ [i \in DOMAIN last'.ret |-> last'.ret[i].id] = KeySeq(store)
             /\ \A i, j \in DOMAIN last'.ret :
                   last'.ret[i].id = last'.ret[j].id => i = j
             /\ \A i \in DOMAIN last'.ret :
                   last'.ret[i] = Line(last'.ret[i].id)
             /\ MapKeys(store) = {} => last'.ret = <<>>
       /\ \A id \in Ids, st \in CreditLineStatus \cup {Omitted} :
             CallCreate(id, st) =>
                KeySeq(store') = (IF MapHas(store, id) THEN KeySeq(store)
                                  ELSE Append(KeySeq(store), id))
       /\ (~ \E id \in Ids, st \in CreditLineStatus \cup {Omitted} :
               CallCreate(id, st)) => KeySeq(store') = KeySeq(store)]_vars

\* C15 witness: a list of two lines whose first entry was created again
\* after the second one was created, and is still listed first.
ListInCreationOrderWitness ==
    /\ last.op = "list"
    /\ Len(last.ret) = 2
    /\ last.ret[1].id # last.ret[2].id
    /\ last.ret[1].createdAt > last.ret[2].createdAt

StoredLines == {store[i].value : i \in DOMAIN store}

TimesInOrder(line) ==
    /\ line.updatedAt >= line.createdAt
    /\ \A i, j \in DOMAIN line.events :
          i < j => line.events[i].timestamp <= line.events[j].timestamp

\* C17: with a clock that never goes backwards (Tick only advances it),
\* every stored line has updatedAt >= createdAt and event timestamps that
\* never decrease along the log, and a suspendCreditLine or closeCreditLine
\* call that succeeds leaves updatedAt at or above its value before.
TimestampsMonotone ==
    /\ [](\A line \in StoredLines : TimesInOrder(line))
    /\ [][clock' >= clock]_vars
    /\ [][\A id \in Ids :
             ((CallSuspend(id) \/ CallClose(id)) /\ last'.outcome = "ok") =>
                LineAfter(id).updatedAt >= Line(id).updatedAt]_vars

\* C17 witness: a line suspended and closed at three different times.
TimestampsMonotoneWitness ==
    \E line \in StoredLines :
        /\ Len(line.events) = 3
        /\ line.events[1].timestamp < line.events[2].timestamp
        /\ line.events[2].timestamp < line.events[3].timestamp
        /\ line.createdAt < line.updatedAt

\* The status a line has after the event `action`.
StatusNamed(action) == IF action = "created" THEN "active" ELSE action

LifecycleShapes ==
    {<<"created">>,
     <<"created", "suspended">>,
     <<"created", "closed">>,
     <<"created", "suspended", "closed">>}

\* C18: when every line is created with the default status, the actions of
\* a line's events are always [created], [created, suspended],
\* [created, closed] or [created, suspended, closed] and its status is the
\* one its last action names (created: active); a line created, then
\* suspended, then closed has the actions [created, suspended, closed] and
\* status closed.
DefaultLifecycle ==
    /\ [](\A line \in StoredLines :
             /\ Actions(line) \in LifecycleShapes
             /\ line.status = StatusNamed(line.events[Len(line.events)].action))
    /\ [][\A id \in Ids :
             (/\ CallClose(id)
              /\ last.op = "suspend" /\ last.id = id /\ last.outcome = "ok"
              /\ Actions(last.ret) = <<"created", "suspended">>) =>
                /\ last'.outcome = "ok"
                /\ last'.ret.status = "closed"
                /\ Actions(last'.ret) = <<"created", "suspended", "closed">>]_vars

\* C18 witness: the close of a line right after its suspend: closed, with
\* the three actions in order.
DefaultLifecycleWitness ==
    \E id \in Ids :
        /\ last.op = "close" /\ last.id = id /\ last.outcome = "ok"
        /\ MapHas(store, id)
        /\ Line(id).status = "closed"
        /\ Actions(Line(id)) = <<"created", "suspended", "closed">>
        /\ Line(id).createdAt = Line(id).updatedAt

----------------------------------------------------------------------------
(* Properties of concurrent requests (SpecHttp) *)

AllDone == \A i \in DOMAIN reqs : reqs[i].status # 0

\* The requests on line x that adminAuth lets through.
Admitted(x) ==
    {i \in DOMAIN reqs :
        reqs[i].id = x /\ ~Falsy(adminKey) /\ reqs[i].key = adminKey}

\* C3: two suspend requests in flight together on a freshly created active
\* line (no other admitted request on it): whatever the order in which they
\* are handled, one is answered 200 and the other 409 with the
\* InvalidTransitionError for status "suspended", the line never has more
\* than 2 events, and it ends suspended with exactly 2.
ConcurrentSuspends ==
    \A x \in Ids :
        (/\ MapHas(store, x)
         /\ Cardinality(Admitted(x)) = 2
         /\ \A i \in Admitted(x) : reqs[i].kind = "suspend") =>
            /\ Len(Line(x).events) <= 2
            /\ Cardinality({i \in Admitted(x) : reqs[i].status = 200}) <= 1
            /\ AllDone =>
                  /\ \E i, j \in Admitted(x) :
                        /\ i # j
                        /\ reqs[i].status = 200
                        /\ reqs[j].status = 409
                        /\ reqs[j].body.error = <<"Cannot", "suspend", "suspended">>
                  /\ Line(x).status = "suspended"
                  /\ Actions(Line(x)) = <<"created", "suspended">>

\* C3 witness: both suspends answered, the second of the batch handled
\* first, and a request on another line answered 200 as well.
ConcurrentSuspendsWitness ==
    /\ AllDone
    /\ Len(reqs) = 3
    /\ \E x \in Ids :
          /\ MapHas(store, x)
          /\ Admitted(x) = {1, 2}
          /\ reqs[1].kind = "suspend" /\ reqs[2].kind = "suspend"
          /\ reqs[1].status = 409 /\ reqs[2].status = 200
          /\ reqs[3].status = 200

\* What serving the requests one after another must give, by the transition
\* table: a line is its status and the actions of its events.
Absent == [status |-> "absent", actions |-> <<>>]

\* Before the batch: every stored line is freshly created (InitHttp), and
\* no request adds or removes an id.
Fresh ==
    [x \in Ids |-> IF MapHas(store, x)
                   THEN [status |-> "active", actions |-> <<"created">>]
                   ELSE Absent]

Moved(ls, x, to) ==
    [ls EXCEPT ![x] = [status |-> to, actions |-> Append(ls[x].actions, to)]]

\* One request served alone on the lines ls: the lines after it, the HTTP
\* status, and for a 409 the status the line was found in.
Serve(ls, req) ==
    IF Falsy(adminKey) THEN [lines |-> ls, status |-> 503, found |-> "-"]
    ELSE IF req.key # adminKey THEN [lines |-> ls, status |-> 401, found |-> "-"]
    ELSE IF ls[req.id] = Absent THEN [lines |-> ls, status |-> 404, found |-> "-"]
    ELSE IF req.kind = "suspend" /\ ls[req.id].status = "active"
    THEN [lines |-> Moved(ls, req.id, "suspended"), status |-> 200, found |-> "active"]
    ELSE IF req.kind = "close" /\ ls[req.id].status # "closed"
    THEN [lines |-> Moved(ls, req.id, "closed"), status |-> 200,
          found |-> ls[req.id].status]
    ELSE [lines |-> ls, status |-> 409, found |-> ls[req.id].status]

\* The response the request got is the one Serve gives.
Answered(req, s) ==
    /\ req.status = s.status
    /\ s.status = 409 => req.body.error = <<"Cannot", req.kind, s.found>>
    /\ s.status = 200 =>
          /\ req.body.data.status = s.lines[req.id].status
          /\ Actions(req.body.data) = s.lines[req.id].actions

RECURSIVE Serial(_, _)
\* The first n requests of the order p served one after another.
Serial(p, n) ==
    IF n = 0 THEN [lines |-> Fresh, ok |-> TRUE]
    ELSE LET prev == Serial(p, n - 1)
             s == Serve(prev.lines, reqs[p[n]])
         IN [lines |-> s.lines, ok |-> prev.ok /\ Answered(reqs[p[n]], s)]

\* Some order of the requests explains every response and the final registry.
Serializable ==
    \E p \in Permutations(DOMAIN reqs) :
        LET run == Serial(p, Len(reqs)) IN
        /\ run.ok
        /\ \A x \in Ids :
              IF MapHas(store, x)
              THEN /\ Line(x).status = run.lines[x].status
                   /\ Actions(Line(x)) = run.lines[x].actions
              ELSE run.lines[x] = Absent

\* C4: every request checks and changes the line in one step, so when all
\* requests of a batch are answered the responses and the registry are those
\* of serving the requests in some order one after another; a suspend and a
\* close in flight together on an active line end with the line closed and
\* its events [created, closed] or [created, suspended, closed]; no line
\* ever has a suspended event after a closed one.
RequestsSerialize ==
    /\ AllDone => Serializable
    /\ \A x \in Ids : MapHas(store, x) =>
          /\ \A i, j \in DOMAIN Line(x).events :
                (i < j /\ Line(x).events[i].action = "closed")
                   => Line(x).events[j].action # "suspended"
          /\ (/\ AllDone
              /\ Cardinality(Admitted(x)) = 2
              /\ {reqs[i].kind : i \in Admitted(x)} = {"suspend", "close"}) =>
                 /\ Line(x).status = "closed"
                 /\ Actions(Line(x)) \in {<<"created", "closed">>,
                                          <<"created", "suspended", "closed">>}

\* C4 witness: a suspend and a close on one line, the close handled first:
\* the suspend is answered 409 and the events are [created, closed].
RequestsSerializeWitness ==
    /\ AllDone
    /\ \E x \in Ids :
          /\ MapHas(store, x)
          /\ Cardinality(Admitted(x)) = 2
          /\ \E i, j \in Admitted(x) :
                /\ reqs[i].kind = "suspend" /\ reqs[i].status = 409
                /\ reqs[j].kind = "close" /\ reqs[j].status = 200
          /\ Actions(Line(x)) = <<"created", "closed">>

\* The request sent the key the server is configured with.
HasAdminKey(i) == ~Falsy(adminKey) /\ reqs[i].key = adminKey

\* The service call the route of request i makes.
ServiceCall(i) ==
    IF reqs[i].kind = "suspend" THEN suspendCreditLine(store, reqs[i].id, clock)
    ELSE closeCreditLine(store, reqs[i].id, clock)

\* C19: the suspend and close handlers answer a request once (a response
\* sent is never changed): 200 with the updated line when the service call
\* returns, 404 when it throws CreditLineNotFoundError, 409 when it throws
\* InvalidTransitionError, 500 for any other error; a request answered 404
\* or 409 leaves the registry as it was.
HandlerAnswersOnce ==
    [][/\ \A i \in DOMAIN reqs :
             /\ reqs[i].status # 0 => reqs'[i] = reqs[i]
             /\ (HandleRequest(i) /\ HasAdminKey(i)) =>
                   LET r == ServiceCall(i) IN
                   /\ reqs'[i].status \in {200, 404, 409, 500}
                   /\ r.outcome = "ok" =>
                         /\ reqs'[i].status = 200
                         /\ reqs'[i].body.data = r.ret
                         /\ reqs'[i].body.data = LineAfter(reqs[i].id)
                   /\ r.err.name = "CreditLineNotFoundError" =>
                         reqs'[i].status = 404
                   /\ r.err.name = "InvalidTransitionError" =>
                         reqs'[i].status = 409
                   /\ reqs'[i].status \in {404, 409} => store' = store
       /\ \A name \in {"Error", "TypeError"} :
             handleServiceError([name |-> name]).status = 500]_vars

\* C19 witness: a batch answered 200, 409 and 404.
HandlerAnswersOnceWitness ==
    /\ AllDone
    /\ \E i, j, k \in DOMAIN reqs :
          reqs[i].status = 200 /\ reqs[j].status = 409 /\ reqs[k].status = 404

\* C20: a request that adminAuth rejects is answered 503 (no key
\* configured) or 401 and leaves the registry as it was; the registry
\* changes only in the step of a request that carries the configured key.
AuthBeforeMutation ==
    [][/\ \A i \in DOMAIN reqs :
             (HandleRequest(i) /\ ~HasAdminKey(i)) =>
                /\ reqs'[i].status = (IF Falsy(adminKey) THEN 503 ELSE 401)
                /\ store' = store
       /\ store' # store =>
             \E i \in DOMAIN reqs : HandleRequest(i) /\ HasAdminKey(i)]_vars

\* C20 witness: a close with a wrong key answered 401 on a line that is
\* still active with its single event, beside a request answered 200.
AuthBeforeMutationWitness ==
    /\ AllDone
    /\ \E i, j \in DOMAIN reqs :
          /\ reqs[i].status = 401 /\ reqs[i].kind = "close"
          /\ reqs[i].key = "wrong"
          /\ MapHas(store, reqs[i].id)
          /\ Line(reqs[i].id).status = "active"
          /\ Actions(Line(reqs[i].id)) = <<"created">>
          /\ reqs[j].status = 200

----------------------------------------------------------------------------
(* Properties of reads concurrent with transitions (SpecReads) *)

\* The lines a GET response shows.
Observed ==
    UNION {IF reqs[i].kind = "get" THEN {reqs[i].body.data}
           ELSE {reqs[i].body.data[k] : k \in DOMAIN reqs[i].body.data} :
           i \in {j \in DOMAIN reqs :
                     reqs[j].kind \in {"get", "list"} /\ reqs[j].status = 200}}

\* Status, updatedAt and last event of a line (created active) agree.
Coherent(line) ==
    /\ line.status = StatusNamed(line.events[Len(line.events)].action)
    /\ line.updatedAt = line.events[Len(line.events)].timestamp
    /\ Actions(line) \in LifecycleShapes

----------------------------------------------------------------------------
(* Properties of the middleware (SpecAuth) *)

Statuses(sent) == [i \in DOMAIN sent |-> sent[i].status]

\* C21: adminAuth calls next() exactly when ADMIN_API_KEY is configured
\* (set and non-empty) and the x-admin-api-key header is present and equal
\* to it; with no key configured it answers 503 whatever the header;
\* otherwise 401; and it never both sends a response and calls next().
AdminAuthContract ==
    \A i \in DOMAIN reqs :
        LET r == reqs[i]
            configured == r.env # NoValue /\ r.env # ""
        IN /\ r.next = 1 <=> (configured /\ r.key # NoValue /\ r.key = r.env)
           /\ ~configured => Statuses(r.sent) = <<503>>
           /\ (configured /\ r.next # 1) => Statuses(r.sent) = <<401>>
           /\ r.next \in {0, 1}
           /\ r.next + Len(r.sent) = 1

\* C21 witness: requests answered 503 (no key configured, the right header
\* of a moment ago sent), 401 (empty header) and passed on to next().
AdminAuthContractWitness ==
    /\ Len(reqs) = 3
    /\ reqs[1].next = 1
    /\ reqs[2].env = "" /\ reqs[2].key = "secret"
    /\ Statuses(reqs[2].sent) = <<503>>
    /\ reqs[3].env = "secret" /\ reqs[3].key = ""
    /\ Statuses(reqs[3].sent) = <<401>>

----------------------------------------------------------------------------
(* Properties of the horizon listener's start, stop and timers             *)
(* (SpecHorizon)                                                           *)

\* C22: once stop() has returned and until start() is called again (the
\* listener is not running and the step is not a call of start()), no poll
\* is executed and no handler receives an event.
NoPollAfterStop ==
    [][(~running /\ last'.op # "start") =>
          (last'.events = <<>> /\ last'.invoked = <<>>)]_vars

\* C23: start() while the listener is running changes nothing (config,
\* timers, pending calls) and polls nothing, and at most one polling timer
\* is active at any time.
OneTimerAtMost ==
    /\ [](Cardinality(timers) <= 1)
    /\ [][(running /\ last'.op = "start") =>
             /\ last'.noop
             /\ last'.events = <<>>
             /\ UNCHANGED lvars]_vars

\* C24: isRunning() is true exactly when getConfig() is non-null, in every
\* state between steps; both are set in the step in which start() begins
\* and stay so until a stop(); stop() while not running changes nothing.
RunningIffConfig ==
    /\ [](running <=> activeConfig # Null)
    /\ [][/\ (last'.op = "start" /\ last' # last) =>
                (running' /\ activeConfig' \in Configs)
          /\ (running /\ ~running') => (last'.op = "stop" /\ ~last'.noop)
          /\ (running /\ running') => activeConfig' = activeConfig
          /\ (~running /\ last'.op = "stop" /\ last' # last) =>
                (last'.noop /\ UNCHANGED lvars)]_vars

\* C24 witness: stop() called while not running (a no-op), a start() of
\* before the last stop still awaiting its first poll.
RunningIffConfigWitness ==
    /\ last.op = "stop" /\ last.noop
    /\ ~running /\ activeConfig = Null
    /\ Starting = 1

\* C26: start() polls once at once; its timer is scheduled and start()
\* resolves only when that poll's event was delivered to all handlers; and
\* from then on, while the listener is running, one timer drives the
\* polls: one poll is started per elapsed interval.
PollPerInterval ==
    /\ [][/\ (last'.op = "start" /\ ~last'.noop) =>
                (last'.by = "start" /\ timers' = timers)
          /\ \A c \in BagToSet(calls) :
                StartResumes(c) =>
                   (c.cleared \/ Len(c.delivered) >= c.registered)
          /\ \A t \in timers :
                TimerFires(t) =>
                   Len(last'.events) = (IF t.config.contractIds = <<>> THEN 0 ELSE 1)]_vars
    /\ []((running /\ Starting = 0) => Cardinality(timers) = 1)

----------------------------------------------------------------------------
(* Properties of the dispatch of events to handlers (SpecDispatch) *)

\* The handlers of hs that throw when called.
SyncThrows(hs) == Len(SelectSeq(hs, LAMBDA h : h = "throws"))

\* The step is the one in which the dispatch of the pending call c ends.
DispatchEnds(c) == Resume(c) /\ last'.settled # "none"

\* C25 as stated: every handler registered when an event is dispatched is
\* invoked once for it, whatever the earlier handlers do, and no failure
\* makes pollOnce() or start() reject.
EveryRegisteredHandlerInvoked ==
    [][/\ last'.settled # "rejected"
       /\ \A c \in BagToSet(calls) :
             DispatchEnds(c) =>
                Len(c.delivered) + Len(last'.invoked) >= c.registered]_vars

\* C25 amended: unless clearEventHandlers() is called while a dispatch
\* awaits a handler, the dispatch invokes every registered handler once,
\* in registration order (it ends having invoked exactly the array of
\* handlers), whether handlers throw or reject; each failure is logged;
\* no failure makes pollOnce() or start() reject.
HandlersEachOnce ==
    [][/\ last'.settled # "rejected"
       /\ (last'.op \in {"start", "pollOnce"} /\ last'.events # <<>>) =>
             /\ IsPrefix(last'.invoked, eventHandlers)
             /\ last'.logged = SyncThrows(last'.invoked)
             /\ last'.settled = "resolved" => last'.invoked = eventHandlers
             /\ Len(last'.invoked) < Len(eventHandlers) =>
                   last'.invoked[Len(last'.invoked)] # "throws"
       /\ \A c \in BagToSet(calls) :
             /\ Resume(c) =>
                   /\ last'.logged =
                         SyncThrows(last'.invoked)
                         + (IF c.delivered[Len(c.delivered)] = "rejects" THEN 1 ELSE 0)
                   /\ ~c.cleared => IsPrefix(c.delivered \o last'.invoked, eventHandlers)
             /\ (DispatchEnds(c) /\ ~c.cleared) =>
                   c.delivered \o last'.invoked = eventHandlers
             /\ StartResumes(c) => last'.settled = "resolved"]_vars

\* C25 witness: a dispatch ended after a handler that rejected and one
\* that threw, both logged.
HandlersEachOnceWitness ==
    /\ last.op = "resume" /\ last.settled = "resolved"
    /\ eventHandlers = <<"rejects", "throws">>
    /\ last.invoked = <<"throws">>
    /\ last.logged = 2

Range(s) == {s[k] : k \in DOMAIN s}

\* C27: a poll with no contract id emits no event and calls no handler; a
\* poll with contract ids emits exactly one event, for the first id; and
\* clearEventHandlers() empties the array, every handler a poll or a
\* dispatch calls being one of the array at that moment.
PollEmitsOneEvent ==
    [][/\ \A config \in Configs :
             (CallPollOnce(config) \/ (~running /\ Start(config))) =>
                IF config.contractIds = <<>>
                THEN last'.events = <<>> /\ last'.invoked = <<>>
                ELSE /\ Len(last'.events) = 1
                     /\ last'.events[1].contractId = config.contractIds[1]
       /\ last'.op = "clearEventHandlers" => eventHandlers' = <<>>
       /\ last' # last => Range(last'.invoked) \subseteq Range(eventHandlers)]_vars

\* C27 witness: a poll of a configuration with two contract ids has
\* emitted its one event, for the first, after the handlers were cleared
\* and another registered: only that one was called.
PollEmitsOneEventWitness ==
    /\ last.op = "pollOnce"
    /\ Len(last.events) = 1 /\ last.events[1].contractId = "C1"
    /\ eventHandlers = <<"ok">>
    /\ last.invoked = <<"ok">>

----------------------------------------------------------------------------
(* Properties of the migration runner (SpecMigrate) *)

\* A file name without its last four characters.
Stem(name) == SubSeq(name, 1, Len(name) - 4)

\* The files whose SQL the database ran for the run r, in order.
Executed(r) == SubSeq(db.log, r.since + 1, Len(db.log))

\* The .sql files of the directory the run r read whose version the
\* database did not hold when r began.
PendingFor(r) ==
    {e.name : e \in {x \in r.entries :
                        /\ x.isFile
                        /\ endsWithSql(x.name)
                        /\ \A j \in DOMAIN r.applied : r.applied[j] # Stem(x.name)}}

\* C28: a run that has returned executed exactly the pending .sql files
\* (regular files named *.sql whose version was not recorded), each once,
\* in ascending code-unit order of the file names; it returned their
\* versions in that order, and the recorded versions are now those of
\* before and these.
AppliesPendingInOrder ==
    \A i \in DOMAIN runs :
        (runs[i].pc = "done" /\ i = Len(runs)) =>
            LET r == runs[i]
                ex == Executed(r)
            IN /\ Range(ex) = PendingFor(r)
               /\ \A j \in 1..(Len(ex) - 1) : LexLess(ex[j], ex[j + 1])
               /\ r.run = [j \in DOMAIN ex |-> Stem(ex[j])]
               /\ db.schema_migrations.versions =
                     Range(r.applied) \cup {Stem(n) : n \in PendingFor(r)}

\* C28 witness: with version 0 recorded and every entry in the directory,
\* a run applied 10.sql, then 2.sql, and returned their versions.
AppliesPendingInOrderWitness ==
    /\ Len(runs) = 1
    /\ runs[1].pc = "done"
    /\ runs[1].entries = DirEntries
    /\ runs[1].applied = <<<<"0">>>>
    /\ runs[1].run = << <<"1", "0">>, <<"2">> >>

\* C29: a run that begins after a run that succeeded, the directory being
\* what that run read, returns the empty list at once: it runs no SQL and
\* records nothing.
SecondRunDoesNothing ==
    [][\A i \in DOMAIN runs' :
          (/\ i = Len(runs) + 1
           /\ i > 1
           /\ runs[i - 1].pc = "done"
           /\ dir = runs[i - 1].entries) =>
              /\ runs'[i].pc = "done"
              /\ runs'[i].run = <<>>
              /\ db'.log = db.log
              /\ db'.schema_migrations = db.schema_migrations]_vars

\* C29 witness: a second run returned nothing after a first run that
\* applied two migrations from the same directory.
SecondRunDoesNothingWitness ==
    /\ Len(runs) = 2
    /\ runs[1].pc = "done" /\ Len(runs[1].run) = 2
    /\ runs[2].entries = runs[1].entries
    /\ runs[2].pc = "done" /\ runs[2].run = <<>>
    /\ Len(db.log) = 2

\* C35: a version enters schema_migrations only in the step after the
\* database ran that file's SQL for the run; a run whose SQL fails rejects
\* at once, the database unchanged, and while it is the latest run nothing
\* more is executed or recorded; no version is ever removed, and the
\* versions a run returned or had applied before it failed are recorded.
RecordsOnlyAfterSql ==
    /\ [](\A i \in DOMAIN runs :
              Range(runs[i].run) \subseteq db.schema_migrations.versions)
    /\ [][/\ db.schema_migrations.versions \subseteq db'.schema_migrations.versions
          /\ \A v \in db'.schema_migrations.versions \ db.schema_migrations.versions :
                \E i \in DOMAIN runs :
                    /\ runs[i].pc = "insert"
                    /\ Len(db.log) > runs[i].since
                    /\ db.log[Len(db.log)] = runs[i].files[runs[i].k]
                    /\ Stem(db.log[Len(db.log)]) = v
          /\ \A i \in DOMAIN runs :
                /\ (runs[i].pc = "sql" /\ runs'[i] # runs[i] /\ db'.log = db.log) =>
                      (runs'[i].pc = "failed" /\ db' = db)
                /\ runs[i].pc = "failed" =>
                      /\ runs'[i] = runs[i]
                      /\ i = Len(runs') => db' = db]_vars

\* C35 witness: a run applied 10.sql, then the SQL of 2.sql failed: the
\* run has rejected, 10 is recorded and 2 is not.
RecordsOnlyAfterSqlWitness ==
    \E i \in DOMAIN runs :
        /\ runs[i].pc = "failed"
        /\ runs[i].run = <<<<"1", "0">>>>
        /\ runs[i].k = 2
        /\ Executed(runs[i]) = <<<<"1", "0", ".", "s", "q", "l">>>>
        /\ db.schema_migrations.versions = {<<"1", "0">>}

----------------------------------------------------------------------------
(* Properties of schema validation (SpecSchema) *)

\* The core tables, as the claim names them.
CoreTables == {"borrowers", "credit_lines", "risk_evaluations", "transactions", "events"}

\* r is s without some of its members, the others in their order.
RECURSIVE IsSubsequence(_, _)
IsSubsequence(r, s) ==
    IF r = <<>> THEN TRUE
    ELSE IF s = <<>> THEN FALSE
    ELSE IF r[1] = s[1] THEN IsSubsequence(Tail(r), Tail(s))
    ELSE IsSubsequence(r, Tail(s))

\* C30: missingTables returns the requested names the database lacks, all
\* of them and no other, in the order requested (none when all exist);
\* validateSchema throws "Missing tables: ..." exactly when one of the
\* five core tables is missing, and names the missing ones.
MissingTablesExact ==
    /\ last.op = "missingTables" =>
          LET asked == IF last.tables = Omitted THEN EXPECTED_TABLES ELSE last.tables
          IN /\ IsSubsequence(last.ret, asked)
             /\ Len(last.ret) = Cardinality({k \in DOMAIN asked : asked[k] \notin db.tables})
             /\ \A k \in DOMAIN last.ret : last.ret[k] \notin db.tables
             /\ last.tables = Omitted => Range(asked) = CoreTables
    /\ last.op = "validateSchema" =>
          /\ last.outcome = "throw" <=> ~(CoreTables \subseteq db.tables)
          /\ last.outcome = "throw" =>
                /\ last.err.message[1] = "Missing tables: "
                /\ Range(last.err.message[2]) = CoreTables \ db.tables

\* C30 witness: asked for transactions, credit_lines, schema_migrations
\* and events of a database that has credit_lines and borrowers only,
\* missingTables returned transactions, schema_migrations, events.
MissingTablesExactWitness ==
    /\ last.op = "missingTables"
    /\ db.tables = {"credit_lines", "borrowers"}
    /\ last.ret = <<"transactions", "schema_migrations", "events">>

----------------------------------------------------------------------------
(* Properties of the risk levels (SpecScore) *)

\* C31: scoreToRiskLevel gives every integer score exactly one level: low
\* below 40, medium from 40 to 69, high from 70 on.
ScoreHasOneLevel ==
    last.op = "scoreToRiskLevel" =>
        /\ Cardinality({l \in {"low", "medium", "high"} : last.ret = l}) = 1
        /\ last.ret = "low" <=> last.score < 40
        /\ last.ret = "medium" <=> (40 <= last.score /\ last.score < 70)
        /\ last.ret = "high" <=> last.score >= 70
        /\ last.score = 39 => last.ret = "low"
        /\ last.score = 40 => last.ret = "medium"
        /\ last.score = 69 => last.ret = "medium"
        /\ last.score = 70 => last.ret = "high"

\* C31 witness: the boundary score 40 was given the level medium.
ScoreHasOneLevelWitness ==
    /\ last.op = "scoreToRiskLevel"
    /\ last.score = 40
    /\ last.ret = "medium"

----------------------------------------------------------------------------
(* Properties of POST /evaluate (SpecEvaluate) *)

\* What the route owes a request r, none telling whether r counts as
\* having no walletAddress.
EvaluateAnswer(r, none) ==
    IF none
    THEN /\ r.pc = "done"
         /\ r.sent = <<Response(400, [error |-> "walletAddress is required"])>>
         /\ r.called = <<>>
    ELSE /\ r.called = <<r.body.walletAddress>>
         /\ r.pc = "awaiting" => r.sent = <<>>
         /\ r.pc = "done" =>
               /\ Len(r.sent) = 1
               /\ r.promise.outcome = "ok" => r.sent[1] = Response(200, r.promise.ret)
               /\ (r.promise.outcome = "throw" /\ r.promise.err.name = "Error") =>
                     r.sent[1] = Response(400, [error |-> r.promise.err.message])
               /\ (r.promise.outcome = "throw" /\ r.promise.err.name # "Error") =>
                     r.sent[1] = Response(400, [error |-> "Unknown error"])

\* C32 as stated: a request whose body has no walletAddress is answered 400
\* "walletAddress is required" without a call of evaluateWallet; every
\* other request calls evaluateWallet once with the given address and is
\* answered 200 with its result or 400 with the error message ("Unknown
\* error" for a non-Error); no request is answered 500.
EvaluateAnswersAsStated ==
    \A i \in DOMAIN reqs :
        /\ EvaluateAnswer(reqs[i], "walletAddress" \notin DOMAIN reqs[i].body)
        /\ \A k \in DOMAIN reqs[i].sent : reqs[i].sent[k].status # 500

\* C32 amended: the same, with the bodies whose walletAddress is null, "",
\* 0 or false counted with those that have none.
EvaluateAnswers ==
    \A i \in DOMAIN reqs :
        /\ EvaluateAnswer(reqs[i],
              \/ "walletAddress" \notin DOMAIN reqs[i].body
              \/ reqs[i].body.walletAddress \in {Null, Str(<<>>), Num(0), Bool(FALSE)})
        /\ \A k \in DOMAIN reqs[i].sent : reqs[i].sent[k].status # 500

\* C32 witness: a request without walletAddress was answered and another,
\* whose evaluateWallet rejected with a non-Error, got "Unknown error".
EvaluateAnswersWitness ==
    \E i, j \in DOMAIN reqs :
        /\ "walletAddress" \notin DOMAIN reqs[i].body
        /\ reqs[i].sent # <<>>
        /\ reqs[j].pc = "done"
        /\ reqs[j].service = "rejectsValue"
        /\ reqs[j].sent[1].body = [error |-> "Unknown error"]

----------------------------------------------------------------------------
(* Properties of createCreditLine called with an input object (SpecInput) *)

\* borrowerId.trim() === ""
Blank(s) == \A k \in DOMAIN s : s[k] = " "

\* The field the claim has an input rejected for, "none" when it is valid.
InvalidField(c) ==
    IF Blank(c.borrowerId) THEN "borrowerId"
    ELSE IF c.initialLimit <= 0 THEN "initialLimit"
    ELSE IF c.interestRateBps < 0 THEN "interestRateBps"
    ELSE IF c.riskScore # Undefined /\ (c.riskScore.number < 0 \/ c.riskScore.number > 100)
    THEN "riskScore"
    ELSE "none"

\* C33: createCreditLine called with an input object whose borrowerId is
\* blank, whose initialLimit is <= 0, whose interestRateBps is < 0 or whose
\* riskScore is outside 0..100 throws InvalidCreditLineInputError naming the
\* field and stores nothing; called with any other input (interestRateBps 0,
\* riskScore 0 or 100 among them) it stores the line under a generated id
\* that no stored line has.  createCreditLine makes no such check: it
\* stores every input, under the input object itself.
InputObjectValidated ==
    [][\A input \in InputObjects : CallCreateInput(input) =>
          IF InvalidField(input.fields) # "none"
          THEN /\ last'.outcome = "throw"
               /\ last'.err.name = "InvalidCreditLineInputError"
               /\ last'.err.field = InvalidField(input.fields)
               /\ store' = store
          ELSE /\ last'.outcome = "ok"
               /\ ~MapHas(store, last'.ret.id)
               /\ MapGet(store', last'.ret.id) = last'.ret
               /\ Len(store') = Len(store) + 1]_vars

----------------------------------------------------------------------------
(* Properties of concurrent migration runs (SpecConcurrent) *)

\* C34: the database ran the SQL of each migration file at most once,
\* whatever the interleaving of the runs.  Two runs that both read
\* schema_migrations before either has recorded a version both find the
\* file pending and both execute it: nothing in runPendingMigrations locks
\* the table or claims the version before running the SQL.
MigrationSqlOnce ==
    \A j, k \in DOMAIN db.log : j # k => db.log[j] # db.log[k]

----------------------------------------------------------------------------
(* Properties of a line's timestamps and event log (Spec) *)

\* C36: for every stored line updatedAt is the timestamp of its last
\* event and createdAt the timestamp of its first event.
TimestampsMatchEvents ==
    \A id \in Ids : MapHas(store, id) =>
        LET line == Line(id) IN
        /\ line.events # <<>>
        /\ line.updatedAt = line.events[Len(line.events)].timestamp
        /\ line.createdAt = line.events[1].timestamp

\* C36 witness: a line created, suspended later and closed later still.
TimestampsMatchEventsWitness ==
    \E id \in Ids :
        /\ MapHas(store, id)
        /\ Len(Line(id).events) = 3
        /\ Line(id).createdAt < Line(id).events[2].timestamp
        /\ Line(id).events[2].timestamp < Line(id).updatedAt

\* The number of entries of a log with the given action.
Count(log, action) == Cardinality({k \in DOMAIN log : log[k] = action})

\* C37: the log of every stored line, whatever status it was created with,
\* has 1 to 3 entries, begins with created, has at most one suspended and
\* at most one closed entry and nothing after a closed entry; so a line has
\* at most two transitions, and a suspend or close on a line that has had
\* two, or has a closed entry, throws InvalidTransitionError and leaves the
\* registry as it was.
LogAtMostThree ==
    /\ [](\A id \in Ids : MapHas(store, id) =>
             LET log == Actions(Line(id)) IN
             /\ Len(log) \in 1..3
             /\ log[1] = "created"
             /\ Count(log, "created") = 1
             /\ Count(log, "suspended") <= 1
             /\ Count(log, "closed") <= 1
             /\ \A k \in DOMAIN log : log[k] = "closed" => k = Len(log))
    /\ [][\A id \in Ids :
             (/\ MapHas(store, id)
              /\ \/ Len(Line(id).events) = 3
                 \/ Count(Actions(Line(id)), "closed") = 1
              /\ CallSuspend(id) \/ CallClose(id)) =>
                 /\ last'.outcome = "throw"
                 /\ last'.err.name = "InvalidTransitionError"
                 /\ store' = store]_vars

\* C37 witness: a suspend was rejected on a line created suspended and then
\* closed, whose log is created, closed.
LogAtMostThreeWitness ==
    \E id \in Ids :
        /\ MapHas(store, id)
        /\ Actions(Line(id)) = <<"created", "closed">>
        /\ Line(id).events[1].timestamp < Line(id).events[2].timestamp
        /\ last.op = "suspend" /\ last.id = id /\ last.outcome = "throw"

----------------------------------------------------------------------------
(* Properties of overlapping polls and of restarts (SpecHorizon) *)

\* C38: when a timer's callback starts delivering an event, no earlier
\* poll is waiting for a handler to finish.  The callback does
\* void pollOnce(config) whatever the earlier polls are doing, so with a
\* handler that takes longer than the interval two dispatches are under
\* way together.
PollsDoNotOverlap ==
    [][(/\ \E t \in timers : TimerFires(t)
        /\ last'.invoked # <<>>) =>
           \A c \in BagToSet(calls) : c.at = 0]_vars

\* C39: stop() leaves the handler array as it was; a start() right after a
\* stop() that stopped the listener sets running, makes the config
\* resolved at that moment the active one, keeps the handlers and begins
\* the delivery of the poll's event (one for the first contract id, none
\* without contract ids) to them; and a start's first poll, once its
\* dispatch is over, has reached every handler registered when it began.
RestartKeepsHandlers ==
    /\ [](\A c \in BagToSet(calls) :
             (c.by = "start" /\ c.at = 0 /\ c.outcome # "rejected") =>
                 Len(c.delivered) >= c.registered)
    /\ [][/\ Stop => eventHandlers' = eventHandlers
          /\ \A config \in Configs :
                (/\ last.op = "stop" /\ ~last.noop
                 /\ Start(config)) =>
                    /\ running'
                    /\ activeConfig' = config
                    /\ eventHandlers' = eventHandlers
                    /\ last'.events = IF config.contractIds = <<>> THEN <<>>
                                      ELSE <<HorizonEvent(config.contractIds[1])>>
                    /\ last'.invoked =
                          IF config.contractIds = <<>> \/ eventHandlers = <<>>
                          THEN <<>> ELSE <<eventHandlers[1]>>]_vars

\* C39 witness: the listener was stopped while a timer's poll was waiting
\* for a handler (no timer is left), and started again: the new start's
\* poll has been delivered to the two handlers registered before.
RestartKeepsHandlersWitness ==
    /\ running
    /\ timers = {}
    /\ Len(eventHandlers) = 2
    /\ \E c \in BagToSet(calls) : c.by = "timer" /\ c.at > 0
    /\ \E c \in BagToSet(calls) :
          c.by = "start" /\ c.at = 0 /\ c.registered = 2 /\ Len(c.delivered) = 2

----------------------------------------------------------------------------
(* Properties of the CLIs (SpecCli) *)

\* C40: when main() has finished, client.end() was called exactly once,
\* and the exit code is 1 exactly when connecting, migrating or validating
\* failed.  When client.connect() or the SELECT 1 fails, main() returns
\* from the catch block of its first try, which has no finally:
\* client.end() is not called.
ClientEndedOnce ==
    cli.pc = "finished" =>
        /\ cli.ends = 1
        /\ cli.exitCode = 1 <=> cli.failed # "none"
        /\ cli.exitCode \in {0, 1}

====
